---- MODULE Spec2Model ----
(***************************************************************************)
(* Model of the ITOM equation generator (wupperinst/itom).                  *)
(*                                                                         *)
(* The program loads sets and parameters, then walks every equation family *)
(* over the cross product of its index sets and calls the family's rule    *)
(* once per index tuple.  A rule returns one linear record or a skip.      *)
(* Three generators are modelled side by side on the same input:           *)
(*   tiny   - itom_hub_tinyomo      (direct sparse-row backend, hub variant)*)
(*   pyo    - abstract_itom_hub     (symbolic backend, hub variant)         *)
(*   plain  - abstract_itom         (symbolic backend, plain variant)       *)
(*                                                                         *)
(* Numbers.  The parameters are floats.  A number is kept exactly as       *)
(*     (h * 1e20 + n) / d                                                  *)
(* with integers h, n and d > 0, so that the sentinel 1e20 and everything  *)
(* computed from it stays recognisable and every comparison is exact.      *)
(* A float division by zero that does not raise yields d = 0.              *)
(***************************************************************************)
EXTENDS Integers, Sequences, FiniteSets, TLC

(***************************************************************************)
(* Bounds of the model                                                     *)
(***************************************************************************)
\* YEAR = 1..MaxYear
MaxYear == 2
\* OperationalLife is at most MaxLife
MaxLife == 2
\* TimeStep(y) is 0 (the default), 2 or MaxStep
MaxStep == 5
\* finite upper limits are drawn from 0..MaxLimit
MaxLimit == 1
\* a transport capacity is the sentinel or MaxCap
MaxCap == 3
\* at most MaxRoutes entries of TransportRoute are 1
MaxRoutes == 2
\* CapitalCost is drawn from 0..MaxCost
MaxCost == 1
\* a point of the feasibility comparison is non-zero on at most MaxSupport columns
MaxSupport == 2
\* the largest distance between two consecutive model years
MaxGap == 2

(***************************************************************************)
(* Exact arithmetic on numbers (h * 1e20 + n) / d                          *)
(***************************************************************************)
Abs(a) == IF a < 0 THEN -a ELSE a

RECURSIVE Gcd(_, _)
Gcd(a, b) == IF b = 0 THEN a ELSE Gcd(b, a % b)

\* d = 0 is the result of a float division by zero: n / 0 is inf, -inf or,
\* for n = 0, nan
Norm(h, n, d) ==
    LET g == Gcd(Gcd(Abs(h), Abs(n)), d)
    IN  IF g = 0 THEN [h |-> 0, n |-> 0, d |-> 0]
        ELSE [h |-> h \div g, n |-> n \div g, d |-> d \div g]

IsFinite(a) == a.d # 0

N(n) == [h |-> 0, n |-> n, d |-> 1]

Zero == N(0)
One == N(1)

Add(a, b) == Norm(a.h * b.d + b.h * a.d, a.n * b.d + b.n * a.d, a.d * b.d)
Neg(a) == [h |-> -a.h, n |-> -a.n, d |-> a.d]
Sub(a, b) == Add(a, Neg(b))
\* product; at most one factor carries a multiple of 1e20 in this program
Mul(a, b) == Norm(a.h * b.n + b.h * a.n, a.n * b.n, a.d * b.d)
\* a / k for an integer k > 0
DivInt(a, k) == Norm(a.h, a.n, a.d * k)
\* a <= b; 1e20 exceeds every finite part that occurs
Leq(a, b) ==
    LET x == Sub(a, b) IN x.h < 0 \/ (x.h = 0 /\ x.n <= 0)

RECURSIVE SumSeq(_)
SumSeq(s) == IF s = <<>> THEN Zero ELSE Add(Head(s), SumSeq(Tail(s)))

(***************************************************************************)
(* A fixed enumeration of a finite set (the order in which a family's      *)
(* index product is walked)                                                *)
(***************************************************************************)
RECURSIVE SeqOf(_)
SeqOf(S) ==
    IF S = {} THEN <<>>
    ELSE LET x == CHOOSE e \in S : TRUE IN <<x>> \o SeqOf(S \ {x})

(***************************************************************************)
(* State                                                                   *)
(***************************************************************************)
VARIABLES
    input,   \* the loaded input: sets and sparse parameter tables
    queue,   \* the families still to be generated, in declaration order
    k,       \* position in the index product of the family Head(queue)
    done,    \* the (family, index) pairs whose rule has been called
    fired,   \* which hub / non-hub branch a rule call took
    tiny,    \* records emitted by itom_hub_tinyomo
    pyo,     \* records emitted by abstract_itom_hub
    plain    \* records emitted by abstract_itom

vars == <<input, queue, k, done, fired, tiny, pyo, plain>>

(***************************************************************************)
(* The sentinel                                                            *)
(***************************************************************************)
HighMaxDefault == [h |-> 1, n |-> 0, d |-> 1]

(***************************************************************************)
(* Linear records                                                          *)
(***************************************************************************)
\* a term: coefficient c on column x
Term(c, x) == [c |-> c, x |-> x]

\* one term per column of the list, all with coefficient c
Terms(c, xs) == [j \in 1..Len(xs) |-> Term(c, xs[j])]

RECURSIVE CoefOf(_, _)
CoefOf(ts, x) ==
    IF ts = <<>> THEN Zero
    ELSE Add(IF Head(ts).x = x THEN Head(ts).c ELSE Zero, CoefOf(Tail(ts), x))

\* the left-hand side as a map column -> summed coefficient, zeros dropped
Canon(ts) ==
    LET cols == {ts[j].x : j \in 1..Len(ts)}
    IN  {[x |-> x, c |-> CoefOf(ts, x)] : x \in {c \in cols : CoefOf(ts, c) # Zero}}

Record(fam, idx, ts, sense, rhs) ==
    [fam |-> fam, idx |-> idx, lhs |-> Canon(ts), sense |-> sense, rhs |-> rhs]

Columns(rec) == {e.x : e \in rec.lhs}
Coef(rec, x) == IF x \in Columns(rec) THEN (CHOOSE e \in rec.lhs : e.x = x).c ELSE Zero

(***************************************************************************)
(* Sets and parameters.  A parameter table is the sparse map of the rows   *)
(* of its input file; a lookup outside it yields the declared default.     *)
(***************************************************************************)
Get(table, key, default) == IF key \in DOMAIN table THEN table[key] ELSE default

YEAR == input.YEAR
REGION == input.REGION
LOCATION == input.LOCATION
TECHNOLOGY == input.TECHNOLOGY
PRODUCT == input.PRODUCT
TRANSPORTMODE == input.TRANSPORTMODE
EMISSION == input.EMISSION
MODE_OF_OPERATION == input.MODE_OF_OPERATION

TimeStep(y) == Get(input.TimeStep, y, 0)
HubLocation(l) == Get(input.HubLocation, l, 0)
HubTechnology(t) == Get(input.HubTechnology, t, 0)
DiscountRate(r) == Get(input.DiscountRate, r, [h |-> 0, n |-> 1, d |-> 20])
TransportRoute(l, ll, p, tr, y) == Get(input.TransportRoute, <<l, ll, p, tr, y>>, 0)
TransportCapacity(l, ll, p, tr, y) == Get(input.TransportCapacity, <<l, ll, p, tr, y>>, Zero)
MultiPurposeTransport(tr) == Get(input.MultiPurposeTransport, tr, 0)
Geography(r, l) == Get(input.Geography, <<r, l>>, 0)
DepreciationMethod(r) == Get(input.DepreciationMethod, r, 1)
TransportCapacityToActivity(tr) == Get(input.TransportCapacityToActivity, tr, 1)
OperationalLife(r, t) == Get(input.OperationalLife, <<r, t>>, 1)
CapitalCost(r, t, y) == Get(input.CapitalCost, <<r, t, y>>, 0)
TotalAnnualMaxCapacity(r, t, y) ==
    Get(input.TotalAnnualMaxCapacity, <<r, t, y>>, HighMaxDefault)
LocalTotalAnnualMaxCapacityInvestment(l, t, y) ==
    Get(input.LocalTotalAnnualMaxCapacityInvestment, <<l, t, y>>, HighMaxDefault)
TotalTechnologyAnnualActivityUpperLimit(r, t, y) ==
    Get(input.TotalTechnologyAnnualActivityUpperLimit, <<r, t, y>>, HighMaxDefault)
TotalTechnologyModelPeriodActivityUpperLimit(r, t) ==
    Get(input.TotalTechnologyModelPeriodActivityUpperLimit, <<r, t>>, HighMaxDefault)
AnnualExogenousEmission(r, e, y) == Get(input.AnnualExogenousEmission, <<r, e, y>>, Zero)
AnnualEmissionLimit(r, e, y) == Get(input.AnnualEmissionLimit, <<r, e, y>>, HighMaxDefault)
ModelPeriodEmissionLimit(r, e) == Get(input.ModelPeriodEmissionLimit, <<r, e>>, HighMaxDefault)
LocalResidualCapacity(l, t, y) == Get(input.LocalResidualCapacity, <<l, t, y>>, 0)
ModeForTechnology(t, m) == Get(input.ModeForTechnology, <<t, m>>, 0)
ProductFromTechnology(t, p) == Get(input.ProductFromTechnology, <<t, p>>, 0)
ProductToTechnology(t, p) == Get(input.ProductToTechnology, <<t, p>>, 0)
InputActivityRatio(r, t, p, m, y) == Get(input.InputActivityRatio, <<r, t, p, m, y>>, 0)
OutputActivityRatio(r, t, p, m, y) == Get(input.OutputActivityRatio, <<r, t, p, m, y>>, 0)
EmissionActivityRatio(r, t, e, m, y) == Get(input.EmissionActivityRatio, <<r, t, e, m, y>>, 0)
TechnologyToRetrofit(t) == Get(input.TechnologyToRetrofit, t, 0)

\* an input in which every parameter file is missing
NoTable == [x \in {} |-> 0]

EmptyInput ==
    [YEAR |-> {}, REGION |-> {}, LOCATION |-> {}, TECHNOLOGY |-> {}, PRODUCT |-> {},
     TRANSPORTMODE |-> {}, EMISSION |-> {},
     TimeStep |-> NoTable, HubLocation |-> NoTable, HubTechnology |-> NoTable,
     DiscountRate |-> NoTable, TransportRoute |-> NoTable, TransportCapacity |-> NoTable,
     MultiPurposeTransport |-> NoTable, Geography |-> NoTable,
     DepreciationMethod |-> NoTable, TransportCapacityToActivity |-> NoTable,
     OperationalLife |-> NoTable, CapitalCost |-> NoTable,
     TotalAnnualMaxCapacity |-> NoTable,
     LocalTotalAnnualMaxCapacityInvestment |-> NoTable,
     TotalTechnologyAnnualActivityUpperLimit |-> NoTable,
     TotalTechnologyModelPeriodActivityUpperLimit |-> NoTable,
     AnnualExogenousEmission |-> NoTable, AnnualEmissionLimit |-> NoTable,
     ModelPeriodEmissionLimit |-> NoTable, LocalResidualCapacity |-> NoTable,
     TechnologyToRetrofit |-> NoTable,
     hub |-> TRUE, TransportRoute_pipeline |-> NoTable,
     TransportCapacity_pipeline |-> NoTable,
     MODE_OF_OPERATION |-> {}, ModeForTechnology |-> NoTable,
     ProductFromTechnology |-> NoTable, ProductToTechnology |-> NoTable,
     InputActivityRatio |-> NoTable, OutputActivityRatio |-> NoTable,
     EmissionActivityRatio |-> NoTable,
     duplicated |-> FALSE, duplicated_subset |-> FALSE,
     like_pyomo |-> FALSE, shadow_prices |-> FALSE, status |-> "LOADED",
     RetrofitTechnology |-> NoTable, MatchTechnologyRetrofit |-> NoTable,
     MaxImpurity |-> NoTable, PRODUCT_VALUE |-> <<>>,
     TransportCostByMode |-> NoTable, TransportCostInterReg |-> NoTable]

(***************************************************************************)
(* Columns (variables of the linear program)                               *)
(***************************************************************************)
NewCapacity(r, t, y) == <<"NewCapacity", r, t, y>>
LocalNewCapacity(l, t, y) == <<"LocalNewCapacity", l, t, y>>
LocalAccumulatedNewCapacity(l, t, y) == <<"LocalAccumulatedNewCapacity", l, t, y>>
TotalCapacity(r, t, y) == <<"TotalCapacity", r, t, y>>
Activity(r, t, y) == <<"Activity", r, t, y>>
ModelPeriodActivity(r, t) == <<"ModelPeriodActivity", r, t>>
LocalProduction(l, p, y) == <<"LocalProduction", l, p, y>>
Transport(l, ll, p, tr, y) == <<"Transport", l, ll, p, tr, y>>
SalvageValue(r, t, y) == <<"SalvageValue", r, t, y>>
AnnualEmissions(r, e, y) == <<"AnnualEmissions", r, e, y>>
ModelPeriodEmissions(r, e) == <<"ModelPeriodEmissions", r, e>>
LocalCapitalInvestment(l, t, y) == <<"LocalCapitalInvestment", l, t, y>>
LocalDiscountedCapitalInvestment(l, t, y) == <<"LocalDiscountedCapitalInvestment", l, t, y>>
LocalOperatingCost(l, t, y) == <<"LocalOperatingCost", l, t, y>>
LocalDiscountedOperatingCost(l, t, y) == <<"LocalDiscountedOperatingCost", l, t, y>>
LocalTransportCost(l, p, y) == <<"LocalTransportCost", l, p, y>>
LocalDiscountedTransportCost(l, p, y) == <<"LocalDiscountedTransportCost", l, p, y>>
AnnualTechnologyEmissionsPenalty(r, t, y) == <<"AnnualTechnologyEmissionsPenalty", r, t, y>>
DiscountedTechnologyEmissionsPenalty(r, t, y) ==
    <<"DiscountedTechnologyEmissionsPenalty", r, t, y>>
PotentialRetrofitFromResidual(l, t, y) == <<"PotentialRetrofitFromResidual", l, t, y>>
LocalUse(l, p, y) == <<"LocalUse", l, p, y>>
TotalDiscountedCost(r, y) == <<"TotalDiscountedCost", r, y>>
ModelPeriodCostByRegion(r) == <<"ModelPeriodCostByRegion", r>>
LocalActivityByMode(l, t, m, y) == <<"LocalActivityByMode", l, t, m, y>>
LocalProductionByMode(l, t, p, m, y) == <<"LocalProductionByMode", l, t, p, m, y>>
LocalProductionByTechnology(l, t, p, y) == <<"LocalProductionByTechnology", l, t, p, y>>
LocalUseByMode(l, t, p, m, y) == <<"LocalUseByMode", l, t, p, m, y>>
LocalUseByTechnology(l, t, p, y) == <<"LocalUseByTechnology", l, t, p, y>>
LocalTechnologyEmissionByMode(l, t, e, m, y) == <<"LocalTechnologyEmissionByMode", l, t, e, m, y>>
Import(r, p, y) == <<"Import", r, p, y>>
Export(r, p, y) == <<"Export", r, p, y>>

(***************************************************************************)
(* The generator: families are built in declaration order, each over the   *)
(* cross product of its index sets                                         *)
(***************************************************************************)
Index(fam) ==
    CASE fam \in {"CA0", "SV1", "SV1_plain", "TCC1", "TCC1_plain", "AAC2"} -> SeqOf(REGION \X TECHNOLOGY \X YEAR)
      [] fam = "E6" -> SeqOf(REGION \X TECHNOLOGY \X YEAR)
      [] fam \in {"CA1", "NCC1", "CC2", "OC4", "R1"} -> SeqOf(LOCATION \X TECHNOLOGY \X YEAR)
      [] fam \in {"R2", "R3", "R3_plain"} -> SeqOf(LOCATION \X TECHNOLOGY \X YEAR)
      [] fam = "IP1" -> SeqOf(LOCATION \X TECHNOLOGY \X PRODUCT \X YEAR)
      [] fam \in {"TC1", "TC2"} -> SeqOf(LOCATION \X PRODUCT \X YEAR)
      [] fam \in {"TF1", "TF1a"} ->
            SeqOf(LOCATION \X LOCATION \X PRODUCT \X TRANSPORTMODE \X YEAR)
      [] fam = "TF1b" -> SeqOf(LOCATION \X LOCATION \X TRANSPORTMODE \X YEAR)
      [] fam \in {"TF2", "TF3"} -> SeqOf(LOCATION \X PRODUCT \X YEAR)
      [] fam \in {"TF4", "TF5"} -> SeqOf(REGION \X PRODUCT \X YEAR)
      [] fam \in {"PB1", "PB5"} ->
            SeqOf(LOCATION \X PRODUCT \X TECHNOLOGY \X MODE_OF_OPERATION \X YEAR)
      [] fam \in {"PB2", "PB6"} -> SeqOf(LOCATION \X PRODUCT \X TECHNOLOGY \X YEAR)
      [] fam \in {"PB3", "PB7"} -> SeqOf(LOCATION \X PRODUCT \X YEAR)
      [] fam \in {"OBJ", "check_input_data", "load_data"} -> <<<<>>>>
      [] fam = "TDC2" -> SeqOf({<<r>> : r \in REGION})
      [] fam \in {"E1", "E1_plain"} ->
            SeqOf(LOCATION \X TECHNOLOGY \X EMISSION \X MODE_OF_OPERATION \X YEAR)
      [] fam = "TAC2" -> SeqOf(REGION \X TECHNOLOGY)
      [] fam = "E9" -> SeqOf(REGION \X EMISSION \X YEAR)
      [] fam = "E10" -> SeqOf(REGION \X EMISSION)

\* the rule of family fam is about to be called on this index tuple
At(fam) == queue # <<>> /\ Head(queue) = fam
Cur == Index(Head(queue))[k]

\* the call returns: on to the next tuple, or to the next family
Advance ==
    /\ done' = done \cup {[fam |-> Head(queue), idx |-> Cur]}
    /\ IF k = Len(Index(Head(queue)))
       THEN k' = 1 /\ queue' = Tail(queue)
       ELSE k' = k + 1 /\ UNCHANGED queue
    /\ UNCHANGED input

Start(inputs, families) ==
    /\ input \in inputs
    /\ queue = families
    /\ k = 1
    /\ done = {}
    /\ fired = {}
    /\ tiny = {}
    /\ pyo = {}
    /\ plain = {}

\* the record a call added to a system, if any
RowsOf(sys, fam, idx) == {rec \in sys : rec.fam = fam /\ rec.idx = idx}

(***************************************************************************)
(* Capacity adequacy: CA0 (branches on the technology's hub flag) and CA1  *)
(* (guarded by the location's and the technology's hub flags)              *)
(***************************************************************************)
\* which arm of "if HubTechnology == 1 ... elif HubTechnology == 0 ..." runs
CA0_Branch(t) ==
    IF HubTechnology(t) = 1 THEN {"hub"}
    ELSE IF HubTechnology(t) = 0 THEN {"nonhub"}
    ELSE {}

CA0_RelevantLocation(t) ==
    IF "hub" \in CA0_Branch(t) THEN {l \in LOCATION : HubLocation(l) = 1}
    ELSE {l \in LOCATION : HubLocation(l) = 0}

CA0_NewCapacity_rule(r, t, y) ==
    {Record("CA0", <<r, t, y>>,
            <<Term(One, NewCapacity(r, t, y))>>
            \o Terms(N(-1), SeqOf({LocalNewCapacity(l, t, y) :
                                   l \in {x \in CA0_RelevantLocation(t) : Geography(r, x) = 1}})),
            "==", Zero)}

CA0_NewCapacity_rule_pyomo(r, t, y) ==
    LET rel == SeqOf(CA0_RelevantLocation(t))
    IN  {Record("CA0", <<r, t, y>>,
                <<Term(One, NewCapacity(r, t, y))>>
                \o [j \in 1..Len(rel) |->
                       Term(N(-Geography(r, rel[j])), LocalNewCapacity(rel[j], t, y))],
                "==", Zero)}

\* the disjuncts of the guard shared by the (location, technology) families:
\* (HubLocation == 1 and HubTechnology == 1) or (HubLocation == 0 and HubTechnology == 0)
HubGuardMutant(l, t) ==
    {b \in {"hub"} : HubLocation(l) = 1 /\ HubTechnology(t) = 1}
    \cup {b \in {"nonhub"} : HubLocation(l) = 0}

HubGuard(l, t) ==
    {b \in {"hub"} : HubLocation(l) = 1 /\ HubTechnology(t) = 1}
    \cup {b \in {"nonhub"} : HubLocation(l) = 0 /\ HubTechnology(t) = 0}

\* sum(OperationalLife[r,t] * Geography[r,l] for r in REGION)
RECURSIVE LocalLife(_, _, _)
LocalLife(rs, l, t) ==
    IF rs = {} THEN 0
    ELSE LET r == CHOOSE x \in rs : TRUE
         IN  OperationalLife(r, t) * Geography(r, l) + LocalLife(rs \ {r}, l, t)

CA1_Vintages(l, t, y) ==
    {yy \in YEAR : y - yy < LocalLife(REGION, l, t) /\ y - yy >= 0}

CA1_TotalNewCapacity_1_rule(l, t, y) ==
    IF HubGuard(l, t) # {}
    THEN {Record("CA1", <<l, t, y>>,
                 <<Term(One, LocalAccumulatedNewCapacity(l, t, y))>>
                 \o Terms(N(-1), SeqOf({LocalNewCapacity(l, t, yy) : yy \in CA1_Vintages(l, t, y)})),
                 "==", Zero)}
    ELSE {}

CA1_TotalNewCapacity_1_rule_pyomo(l, t, y) ==
    IF HubGuard(l, t) # {}
    THEN {Record("CA1", <<l, t, y>>,
                 <<Term(One, LocalAccumulatedNewCapacity(l, t, y))>>
                 \o Terms(N(-1), SeqOf({LocalNewCapacity(l, t, yy) : yy \in CA1_Vintages(l, t, y)})),
                 "==", Zero)}
    ELSE {}

Took(branches) == {[fam |-> Head(queue), idx |-> Cur, br |-> b] : b \in branches}

CA0_NewCapacity ==
    /\ At("CA0")
    /\ LET r == Cur[1]  t == Cur[2]  y == Cur[3]
       IN  /\ tiny' = tiny \cup CA0_NewCapacity_rule(r, t, y)
           /\ pyo' = pyo \cup CA0_NewCapacity_rule_pyomo(r, t, y)
           /\ fired' = fired \cup Took(CA0_Branch(t))
    /\ Advance
    /\ UNCHANGED plain

CA1_TotalNewCapacity_1 ==
    /\ At("CA1")
    /\ LET l == Cur[1]  t == Cur[2]  y == Cur[3]
       IN  /\ tiny' = tiny \cup CA1_TotalNewCapacity_1_rule(l, t, y)
           /\ pyo' = pyo \cup CA1_TotalNewCapacity_1_rule_pyomo(l, t, y)
           /\ fired' = fired \cup Took(HubGuard(l, t))
    /\ Advance
    /\ UNCHANGED plain

(***************************************************************************)
(* Symbolic expressions of the pyomo backend: a relation "left sense right" *)
(* is brought to the form  terms sense constant                            *)
(***************************************************************************)
V(x) == [t |-> <<Term(One, x)>>, c |-> Zero]
K(c) == [t |-> <<>>, c |-> c]
Plus(a, b) == [t |-> a.t \o b.t, c |-> Add(a.c, b.c)]
\* an expression without a constant term stays without one
Scale(f, a) ==
    [t |-> [j \in 1..Len(a.t) |-> Term(Mul(f, a.t[j].c), a.t[j].x)],
     c |-> IF a.c = Zero THEN Zero ELSE Mul(f, a.c)]

RECURSIVE SumExpr(_)
SumExpr(es) == IF es = <<>> THEN K(Zero) ELSE Plus(Head(es), SumExpr(Tail(es)))

Relation(fam, idx, left, sense, right) ==
    Record(fam, idx, left.t \o Scale(N(-1), right).t, sense, Sub(right.c, left.c))

(***************************************************************************)
(* Transport flows: TF1a, TF1b, TF2 of the hub variants, TF1 of the plain  *)
(* variant                                                                 *)
(***************************************************************************)
\* left-hand side of a two-way route between distinct locations
TF1a_BothWaysMutant(l, ll, p, tr, y) == <<Term(One, Transport(l, ll, p, tr, y))>>

TF1a_BothWays(l, ll, p, tr, y) ==
    <<Term(One, Transport(l, ll, p, tr, y)), Term(One, Transport(ll, l, p, tr, y))>>

\* left-hand side of a route from a location to itself
TF1a_SelfLoopMutant(l, ll, p, tr, y) == <<Term(One, Transport(l, ll, p, tr, y))>>

TF1a_SelfLoop(l, ll, p, tr, y) == <<Term(N(2), Transport(l, ll, p, tr, y))>>

\* the if / elif chain under "if TransportCapacity != HighMaxDefault"
TF1a_Routed(l, ll, p, tr, y) ==
    LET fwd == TransportRoute(l, ll, p, tr, y)
        bwd == TransportRoute(ll, l, p, tr, y)
        mp == MultiPurposeTransport(tr)
        rhs == Mul(TransportCapacity(l, ll, p, tr, y), N(TransportCapacityToActivity(tr)))
        idx == <<l, ll, p, tr, y>>
    IN  IF fwd = 1 /\ bwd = 0 /\ mp = 0
        THEN {Record("TF1a", idx, <<Term(One, Transport(l, ll, p, tr, y))>>, "<=", rhs)}
        ELSE IF fwd = 0 /\ bwd = 1 /\ mp = 0
        THEN {}
        ELSE IF fwd = 1 /\ bwd = 1 /\ mp = 0 /\ l # ll
        THEN {Record("TF1a", idx, TF1a_BothWays(l, ll, p, tr, y), "<=", rhs)}
        ELSE IF fwd = 1 /\ bwd = 1 /\ mp = 0 /\ l = ll
        THEN {Record("TF1a", idx, TF1a_SelfLoop(l, ll, p, tr, y), "<=", rhs)}
        ELSE {}

TF1a_Transport_1a_rule(l, ll, p, tr, y) ==
    IF TransportCapacity(l, ll, p, tr, y) # HighMaxDefault
    THEN TF1a_Routed(l, ll, p, tr, y)
    ELSE {}

TF1a_Transport_1a_rule_pyomo(l, ll, p, tr, y) ==
    LET fwd == TransportRoute(l, ll, p, tr, y)
        bwd == TransportRoute(ll, l, p, tr, y)
        mp == MultiPurposeTransport(tr)
        cap == K(Mul(TransportCapacity(l, ll, p, tr, y), N(TransportCapacityToActivity(tr))))
        idx == <<l, ll, p, tr, y>>
    IN  IF TransportCapacity(l, ll, p, tr, y) # HighMaxDefault
        THEN IF fwd = 1 /\ bwd = 0 /\ mp = 0
             THEN {Relation("TF1a", idx, V(Transport(l, ll, p, tr, y)), "<=", cap)}
             ELSE IF fwd = 0 /\ bwd = 1 /\ mp = 0
             THEN {}
             ELSE IF fwd = 1 /\ bwd = 1 /\ mp = 0
             THEN {Relation("TF1a", idx, Plus(V(Transport(l, ll, p, tr, y)),
                                              V(Transport(ll, l, p, tr, y))), "<=", cap)}
             ELSE {}
        ELSE {}

RELEVANT_PRODUCT_to_ll_Mutant(l, ll, tr, y) ==
    {p \in PRODUCT : TransportRoute(ll, l, p, tr, y) = 1}

RELEVANT_PRODUCT_to_ll(l, ll, tr, y) == {p \in PRODUCT : TransportRoute(l, ll, p, tr, y) = 1}
RELEVANT_PRODUCT_from_ll(l, ll, tr, y) == {p \in PRODUCT : TransportRoute(ll, l, p, tr, y) = 1}

\* 1 / len(to) * sum(TransportCapacity(l, ll, p, tr, y) for p in to) * TransportCapacityToActivity(tr)
TF1b_Rhs(l, ll, tr, y) ==
    LET to == SeqOf(RELEVANT_PRODUCT_to_ll(l, ll, tr, y))
    IN  Mul(DivInt(SumSeq([j \in 1..Len(to) |-> TransportCapacity(l, ll, to[j], tr, y)]), Len(to)),
            N(TransportCapacityToActivity(tr)))

TF1b_Transport_1b_rule(l, ll, tr, y) ==
    LET to == RELEVANT_PRODUCT_to_ll(l, ll, tr, y)
        from == RELEVANT_PRODUCT_from_ll(l, ll, tr, y)
        idx == <<l, ll, tr, y>>
    IN  IF MultiPurposeTransport(tr) = 1
        THEN IF to = {} /\ from = {}
             THEN {}
             ELSE IF to # {} /\ from = {}
             THEN {Record("TF1b", idx,
                          Terms(One, SeqOf({Transport(l, ll, p, tr, y) : p \in to})),
                          "<=", TF1b_Rhs(l, ll, tr, y))}
             ELSE IF to = {} /\ from # {}
             THEN {}
             ELSE {Record("TF1b", idx,
                          Terms(One, SeqOf({Transport(l, ll, p, tr, y) : p \in to}))
                          \o Terms(One, SeqOf({Transport(ll, l, p, tr, y) : p \in from})),
                          "<=", TF1b_Rhs(l, ll, tr, y))}
        ELSE {}

TF1b_Transport_1b_rule_pyomo(l, ll, tr, y) ==
    LET to == SeqOf(RELEVANT_PRODUCT_to_ll(l, ll, tr, y))
        from == SeqOf(RELEVANT_PRODUCT_from_ll(l, ll, tr, y))
        sumTo == SumExpr([j \in 1..Len(to) |-> V(Transport(l, ll, to[j], tr, y))])
        sumFrom == SumExpr([j \in 1..Len(from) |-> V(Transport(ll, l, from[j], tr, y))])
        idx == <<l, ll, tr, y>>
    IN  IF MultiPurposeTransport(tr) = 1
        THEN IF to = <<>> /\ from = <<>>
             THEN {}
             ELSE IF to # <<>> /\ from = <<>>
             THEN {Relation("TF1b", idx, sumTo, "<=", K(TF1b_Rhs(l, ll, tr, y)))}
             ELSE IF to = <<>> /\ from # <<>>
             THEN {}
             ELSE {Relation("TF1b", idx, Plus(sumTo, sumFrom), "<=", K(TF1b_Rhs(l, ll, tr, y)))}
        ELSE {}

\* the Transport columns leaving l: for ll in LOCATION, for tr routed from l to ll
TF2_Outbound(l, p, y) ==
    {Transport(l, ll, p, tr, y) : <<ll, tr>> \in
        {e \in LOCATION \X TRANSPORTMODE : TransportRoute(l, e[1], p, e[2], y) = 1}}

TF2_SenseMutant(l) == "<="

TF2_Sense(l) == IF HubLocation(l) = 0 THEN "<=" ELSE "=="

TF2_Transport_2_rule(l, p, y) ==
    LET probe == TransportRoute(l, "DELTA_DEMAND", p, "ONSITE", y)  \* looked up, not used
    IN  {Record("TF2", <<l, p, y>>,
                Terms(One, SeqOf(TF2_Outbound(l, p, y)))
                \o <<Term(N(-1), LocalProduction(l, p, y))>>,
                TF2_Sense(l), Zero)}

TF2_Transport_2_rule_pyomo(l, p, y) ==
    LET out == SeqOf(TF2_Outbound(l, p, y))
        flow == SumExpr([j \in 1..Len(out) |-> V(out[j])])
    IN  IF TF2_Sense(l) = "<="
        THEN {Relation("TF2", <<l, p, y>>, flow, "<=", V(LocalProduction(l, p, y)))}
        ELSE {Relation("TF2", <<l, p, y>>, flow, "==", V(LocalProduction(l, p, y)))}

TF1_Transport_1_rule_plain(l, ll, p, tr, y) ==
    IF TransportRoute(l, ll, p, tr, y) = 1
    THEN {Relation("TF1", <<l, ll, p, tr, y>>,
                   Plus(V(Transport(l, ll, p, tr, y)), V(Transport(ll, l, p, tr, y))), "<=",
                   K(Mul(TransportCapacity(l, ll, p, tr, y), N(TransportCapacityToActivity(tr)))))}
    ELSE {}

TF1a_Transport_1a ==
    /\ At("TF1a")
    /\ LET l == Cur[1]  ll == Cur[2]  p == Cur[3]  tr == Cur[4]  y == Cur[5]
       IN  /\ tiny' = tiny \cup TF1a_Transport_1a_rule(l, ll, p, tr, y)
           /\ pyo' = pyo \cup TF1a_Transport_1a_rule_pyomo(l, ll, p, tr, y)
    /\ Advance
    /\ UNCHANGED <<plain, fired>>

TF1b_Transport_1b ==
    /\ At("TF1b")
    /\ LET l == Cur[1]  ll == Cur[2]  tr == Cur[3]  y == Cur[4]
       IN  /\ tiny' = tiny \cup TF1b_Transport_1b_rule(l, ll, tr, y)
           /\ pyo' = pyo \cup TF1b_Transport_1b_rule_pyomo(l, ll, tr, y)
    /\ Advance
    /\ UNCHANGED <<plain, fired>>

TF2_Transport_2 ==
    /\ At("TF2")
    /\ LET l == Cur[1]  p == Cur[2]  y == Cur[3]
       IN  /\ tiny' = tiny \cup TF2_Transport_2_rule(l, p, y)
           /\ pyo' = pyo \cup TF2_Transport_2_rule_pyomo(l, p, y)
    /\ Advance
    /\ UNCHANGED <<plain, fired>>

TF1_Transport_1_plain ==
    /\ At("TF1")
    /\ LET l == Cur[1]  ll == Cur[2]  p == Cur[3]  tr == Cur[4]  y == Cur[5]
       IN  plain' = plain \cup TF1_Transport_1_rule_plain(l, ll, p, tr, y)
    /\ Advance
    /\ UNCHANGED <<tiny, pyo, fired>>

(***************************************************************************)
(* Specification SpecHub: the hub-branching capacity families on every     *)
(* assignment of hub flags, geography and operational life                 *)
(***************************************************************************)
HubInputs ==
    LET L == {"la", "lb"}  T == {"ta", "tb"}  R == {"ra"}
    IN  {[EmptyInput EXCEPT !.YEAR = 1..MaxYear, !.REGION = R, !.LOCATION = L,
                            !.TECHNOLOGY = T, !.HubLocation = hl, !.HubTechnology = ht,
                            !.Geography = g, !.OperationalLife = ol] :
            hl \in [L -> {0, 1}], ht \in [T -> {0, 1}],
            g \in [R \X L -> {0, 1}], ol \in [R \X T -> 1..MaxLife]}

InitHub == Start(HubInputs, <<"CA0", "CA1">>)
NextHub == CA0_NewCapacity \/ CA1_TotalNewCapacity_1
SpecHub == InitHub /\ [][NextHub]_vars

BranchesTaken(fam, idx) == {f.br : f \in {g \in fired : g.fam = fam /\ g.idx = idx}}

SingleYear == {1}

CapValues == {HighMaxDefault, N(MaxCap)}

\* TransportRoute with at most MaxRoutes routes, a TransportCapacity row for
\* every route, and the multi-purpose flag of every mode
RouteInputs(base, ctas) ==
    LET E == base.LOCATION \X base.LOCATION \X base.PRODUCT \X base.TRANSPORTMODE \X base.YEAR
    IN  UNION {
          {[base EXCEPT !.TransportRoute = [e \in R |-> 1], !.TransportCapacity = cap,
                        !.MultiPurposeTransport = mp, !.TransportCapacityToActivity = cta] :
              cap \in [R -> CapValues], mp \in [base.TRANSPORTMODE -> {0, 1}],
              cta \in [base.TRANSPORTMODE -> ctas]} :
          R \in {S \in SUBSET E : Cardinality(S) <= MaxRoutes}}

TransportInputs ==
    LET base == [EmptyInput EXCEPT !.YEAR = SingleYear, !.LOCATION = {"la", "lb"},
                                   !.PRODUCT = {"pa", "pb"}, !.TRANSPORTMODE = {"tra"}]
    IN  RouteInputs(base, {2})
        \cup UNION {RouteInputs([base EXCEPT !.HubLocation = hl], {1}) :
                      hl \in [base.LOCATION -> {0, 1}]}

InitTransport == Start(TransportInputs, <<"TF1a", "TF1b", "TF2", "TF1">>)
NextTransport ==
    TF1a_Transport_1a \/ TF1b_Transport_1b \/ TF2_Transport_2 \/ TF1_Transport_1_plain
SpecTransport == InitTransport /\ [][NextTransport]_vars

\* the one record a call emitted
TheRow(sys, fam, idx) == CHOOSE rec \in RowsOf(sys, fam, idx) : TRUE

C7_PooledRow ==
    \A c \in done : c.fam = "TF1b" /\ MultiPurposeTransport(c.idx[3]) = 1 =>
        LET l == c.idx[1]  ll == c.idx[2]  tr == c.idx[3]  y == c.idx[4]
            to == {p \in PRODUCT : TransportRoute(l, ll, p, tr, y) = 1}
            from == {p \in PRODUCT : TransportRoute(ll, l, p, tr, y) = 1}
            cols == {Transport(l, ll, p, tr, y) : p \in to}
                    \cup {Transport(ll, l, p, tr, y) : p \in from}
        IN  to # {} =>
              \A sys \in {tiny, pyo} :
                /\ Cardinality(RowsOf(sys, "TF1b", c.idx)) = 1
                /\ LET rec == TheRow(sys, "TF1b", c.idx)
                   IN  /\ Columns(rec) = cols
                       /\ rec.sense = "<="
                       /\ l # ll => \A x \in cols : Coef(rec, x) = One
                /\ \A rec \in sys : ~(rec.fam = "TF1a" /\ rec.idx[4] = tr)

\* witness of C7: a multi-purpose mode carries two products from la to lb, and both
\* TF1a and TF1b have been generated
C7_Witness ==
    /\ queue = <<>>
    /\ \E tr \in TRANSPORTMODE :
         /\ MultiPurposeTransport(tr) = 1
         /\ \A p \in PRODUCT : TransportRoute("la", "lb", p, tr, 1) = 1
    /\ Cardinality(PRODUCT) = 2

TwoWay(l, ll, p, tr, y) ==
    /\ l # ll
    /\ TransportRoute(l, ll, p, tr, y) = 1 /\ TransportRoute(ll, l, p, tr, y) = 1
    /\ MultiPurposeTransport(tr) = 0

SumBoundedByCapacity(sys, fam, l, ll, p, tr, y) ==
    /\ Cardinality(RowsOf(sys, fam, <<l, ll, p, tr, y>>)) = 1
    /\ LET rec == TheRow(sys, fam, <<l, ll, p, tr, y>>)
       IN  /\ rec.lhs = {[x |-> Transport(l, ll, p, tr, y), c |-> One],
                         [x |-> Transport(ll, l, p, tr, y), c |-> One]}
           /\ rec.sense = "<="
           /\ rec.rhs = Mul(TransportCapacity(l, ll, p, tr, y), N(TransportCapacityToActivity(tr)))

C9_SelfLoopDoubled ==
    \A c \in done : c.fam = "TF1a" =>
        LET l == c.idx[1]  ll == c.idx[2]  p == c.idx[3]  tr == c.idx[4]  y == c.idx[5]
        IN  (/\ l = ll
             /\ TransportRoute(l, l, p, tr, y) = 1
             /\ MultiPurposeTransport(tr) = 0
             /\ TransportCapacity(l, l, p, tr, y) # HighMaxDefault) =>
              \A sys \in {tiny, pyo} :
                /\ Cardinality(RowsOf(sys, "TF1a", c.idx)) = 1
                /\ TheRow(sys, "TF1a", c.idx).lhs = {[x |-> Transport(l, l, p, tr, y), c |-> N(2)]}
                /\ TheRow(sys, "TF1a", c.idx).sense = "<="

\* witness of C9: TF1a has been called on a self-loop route with a finite capacity
C9_Witness ==
    \E c \in done :
        /\ c.fam = "TF1a" /\ c.idx[1] = c.idx[2]
        /\ TransportRoute(c.idx[1], c.idx[2], c.idx[3], c.idx[4], c.idx[5]) = 1
        /\ MultiPurposeTransport(c.idx[4]) = 0
        /\ TransportCapacity(c.idx[1], c.idx[2], c.idx[3], c.idx[4], c.idx[5]) # HighMaxDefault
        /\ RowsOf(tiny, "TF1a", c.idx) # {}

(***************************************************************************)
(* Upper limits: TCC1, NCC1, AAC2, TAC2, E9, E10 of the hub variants, TCC1 *)
(* of the plain variant                                                    *)
(***************************************************************************)
\* the record built under "if <limit> != self.HighMaxDefault"
TCC1_Row(r, t, y) ==
    {Record("TCC1", <<r, t, y>>, <<Term(One, TotalCapacity(r, t, y))>>, "<=",
            TotalAnnualMaxCapacity(r, t, y))}

TCC1_TotalAnnualMaxCapacityConstraint_ruleMutant(r, t, y) ==
    IF TotalAnnualMaxCapacity(r, t, y) = HighMaxDefault THEN TCC1_Row(r, t, y) ELSE {}

TCC1_TotalAnnualMaxCapacityConstraint_rule(r, t, y) ==
    IF TotalAnnualMaxCapacity(r, t, y) # HighMaxDefault THEN TCC1_Row(r, t, y) ELSE {}

TCC1_TotalAnnualMaxCapacityConstraint_rule_pyomo(r, t, y) ==
    IF TotalAnnualMaxCapacity(r, t, y) # HighMaxDefault
    THEN {Relation("TCC1", <<r, t, y>>, V(TotalCapacity(r, t, y)), "<=",
                   K(TotalAnnualMaxCapacity(r, t, y)))}
    ELSE {}

TCC1_TotalAnnualMaxCapacityConstraint_rule_plain(r, t, y) ==
    {Relation("TCC1", <<r, t, y>>, V(TotalCapacity(r, t, y)), "<=",
              K(TotalAnnualMaxCapacity(r, t, y)))}

NCC1_Row(l, t, y) ==
    IF HubGuard(l, t) # {}
    THEN {Record("NCC1", <<l, t, y>>, <<Term(One, LocalNewCapacity(l, t, y))>>, "<=",
                 LocalTotalAnnualMaxCapacityInvestment(l, t, y))}
    ELSE {}

NCC1_LocalTotalAnnualMaxNewCapacityConstraint_rule(l, t, y) ==
    IF LocalTotalAnnualMaxCapacityInvestment(l, t, y) # HighMaxDefault
    THEN NCC1_Row(l, t, y)
    ELSE {}

NCC1_LocalTotalAnnualMaxNewCapacityConstraint_rule_pyomo(l, t, y) ==
    IF LocalTotalAnnualMaxCapacityInvestment(l, t, y) # HighMaxDefault
    THEN IF HubGuard(l, t) # {}
         THEN {Relation("NCC1", <<l, t, y>>, V(LocalNewCapacity(l, t, y)), "<=",
                        K(LocalTotalAnnualMaxCapacityInvestment(l, t, y)))}
         ELSE {}
    ELSE {}

AAC2_Row(r, t, y) ==
    {Record("AAC2", <<r, t, y>>, <<Term(One, Activity(r, t, y))>>, "<=",
            TotalTechnologyAnnualActivityUpperLimit(r, t, y))}

AAC2_TotalAnnualTechnologyActivityUpperLimit_rule(r, t, y) ==
    IF TotalTechnologyAnnualActivityUpperLimit(r, t, y) # HighMaxDefault
    THEN AAC2_Row(r, t, y)
    ELSE {}

AAC2_TotalAnnualTechnologyActivityUpperLimit_rule_pyomo(r, t, y) ==
    IF TotalTechnologyAnnualActivityUpperLimit(r, t, y) # HighMaxDefault
    THEN {Relation("AAC2", <<r, t, y>>, V(Activity(r, t, y)), "<=",
                   K(TotalTechnologyAnnualActivityUpperLimit(r, t, y)))}
    ELSE {}

TAC2_Row(r, t) ==
    {Record("TAC2", <<r, t>>, <<Term(One, ModelPeriodActivity(r, t))>>, "<=",
            TotalTechnologyModelPeriodActivityUpperLimit(r, t))}

TAC2_TotalModelHorizonTechnologyActivityUpperLimit_rule(r, t) ==
    IF TotalTechnologyModelPeriodActivityUpperLimit(r, t) # HighMaxDefault
    THEN TAC2_Row(r, t)
    ELSE {}

TAC2_TotalModelHorizonTechnologyActivityUpperLimit_rule_pyomo(r, t) ==
    IF TotalTechnologyModelPeriodActivityUpperLimit(r, t) # HighMaxDefault
    THEN {Relation("TAC2", <<r, t>>, V(ModelPeriodActivity(r, t)), "<=",
                   K(TotalTechnologyModelPeriodActivityUpperLimit(r, t)))}
    ELSE {}

E9_RowMutant(r, e, y) ==
    {Record("E9", <<r, e, y>>, <<Term(One, AnnualEmissions(r, e, y))>>, "<=",
            AnnualEmissionLimit(r, e, y))}

\* rhs = AnnualEmissionLimit - AnnualExogenousEmission
E9_Row(r, e, y) ==
    {Record("E9", <<r, e, y>>, <<Term(One, AnnualEmissions(r, e, y))>>, "<=",
            Sub(AnnualEmissionLimit(r, e, y), AnnualExogenousEmission(r, e, y)))}

E9_AnnualEmissionsLimit_rule(r, e, y) ==
    IF AnnualEmissionLimit(r, e, y) # HighMaxDefault THEN E9_Row(r, e, y) ELSE {}

E9_AnnualEmissionsLimit_rule_pyomo(r, e, y) ==
    IF AnnualEmissionLimit(r, e, y) # HighMaxDefault
    THEN {Relation("E9", <<r, e, y>>,
                   Plus(V(AnnualEmissions(r, e, y)), K(AnnualExogenousEmission(r, e, y))),
                   "<=", K(AnnualEmissionLimit(r, e, y)))}
    ELSE {}

E10_Row(r, e) ==
    {Record("E10", <<r, e>>, <<Term(One, ModelPeriodEmissions(r, e))>>, "<=",
            ModelPeriodEmissionLimit(r, e))}

E10_ModelPeriodEmissionsLimit_rule(r, e) ==
    IF ModelPeriodEmissionLimit(r, e) # HighMaxDefault THEN E10_Row(r, e) ELSE {}

E10_ModelPeriodEmissionsLimit_rule_pyomo(r, e) ==
    IF ModelPeriodEmissionLimit(r, e) # HighMaxDefault
    THEN {Relation("E10", <<r, e>>, V(ModelPeriodEmissions(r, e)), "<=",
                   K(ModelPeriodEmissionLimit(r, e)))}
    ELSE {}

TCC1_TotalAnnualMaxCapacityConstraint ==
    /\ At("TCC1")
    /\ tiny' = tiny \cup TCC1_TotalAnnualMaxCapacityConstraint_rule(Cur[1], Cur[2], Cur[3])
    /\ pyo' = pyo \cup TCC1_TotalAnnualMaxCapacityConstraint_rule_pyomo(Cur[1], Cur[2], Cur[3])
    /\ Advance
    /\ UNCHANGED <<fired, plain>>

TCC1_TotalAnnualMaxCapacityConstraint_plain ==
    /\ At("TCC1_plain")
    /\ plain' = plain \cup TCC1_TotalAnnualMaxCapacityConstraint_rule_plain(Cur[1], Cur[2], Cur[3])
    /\ Advance
    /\ UNCHANGED <<fired, tiny, pyo>>

NCC1_LocalTotalAnnualMaxNewCapacityConstraint ==
    /\ At("NCC1")
    /\ tiny' = tiny \cup NCC1_LocalTotalAnnualMaxNewCapacityConstraint_rule(Cur[1], Cur[2], Cur[3])
    /\ pyo' = pyo \cup
              NCC1_LocalTotalAnnualMaxNewCapacityConstraint_rule_pyomo(Cur[1], Cur[2], Cur[3])
    /\ Advance
    /\ UNCHANGED <<fired, plain>>

AAC2_TotalAnnualTechnologyActivityUpperLimit ==
    /\ At("AAC2")
    /\ tiny' = tiny \cup AAC2_TotalAnnualTechnologyActivityUpperLimit_rule(Cur[1], Cur[2], Cur[3])
    /\ pyo' = pyo \cup
              AAC2_TotalAnnualTechnologyActivityUpperLimit_rule_pyomo(Cur[1], Cur[2], Cur[3])
    /\ Advance
    /\ UNCHANGED <<fired, plain>>

TAC2_TotalModelHorizonTechnologyActivityUpperLimit ==
    /\ At("TAC2")
    /\ tiny' = tiny \cup TAC2_TotalModelHorizonTechnologyActivityUpperLimit_rule(Cur[1], Cur[2])
    /\ pyo' = pyo \cup
              TAC2_TotalModelHorizonTechnologyActivityUpperLimit_rule_pyomo(Cur[1], Cur[2])
    /\ Advance
    /\ UNCHANGED <<fired, plain>>

E9_AnnualEmissionsLimit ==
    /\ At("E9")
    /\ tiny' = tiny \cup E9_AnnualEmissionsLimit_rule(Cur[1], Cur[2], Cur[3])
    /\ pyo' = pyo \cup E9_AnnualEmissionsLimit_rule_pyomo(Cur[1], Cur[2], Cur[3])
    /\ Advance
    /\ UNCHANGED <<fired, plain>>

E10_ModelPeriodEmissionsLimit ==
    /\ At("E10")
    /\ tiny' = tiny \cup E10_ModelPeriodEmissionsLimit_rule(Cur[1], Cur[2])
    /\ pyo' = pyo \cup E10_ModelPeriodEmissionsLimit_rule_pyomo(Cur[1], Cur[2])
    /\ Advance
    /\ UNCHANGED <<fired, plain>>

(***************************************************************************)
(* Specification SpecLimit: every family with an upper-limit parameter, on *)
(* inputs that set one limit table (or the transport tables) and leave the *)
(* other tables at their defaults                                          *)
(***************************************************************************)
LimitValues == {HighMaxDefault} \cup {N(v) : v \in 0..MaxLimit}

LimitInputs ==
    LET base == [EmptyInput EXCEPT !.YEAR = SingleYear, !.REGION = {"ra"},
                                   !.LOCATION = {"la", "lb"}, !.TECHNOLOGY = {"ta"},
                                   !.PRODUCT = {"pa"}, !.TRANSPORTMODE = {"tra"},
                                   !.EMISSION = {"ea"}]
        RTY == base.REGION \X base.TECHNOLOGY \X base.YEAR
        LTY == base.LOCATION \X base.TECHNOLOGY \X base.YEAR
        RT == base.REGION \X base.TECHNOLOGY
        REY == base.REGION \X base.EMISSION \X base.YEAR
        RE == base.REGION \X base.EMISSION
    IN  RouteInputs(base, {0, 2})
        \cup {[base EXCEPT !.TotalAnnualMaxCapacity = v] : v \in [RTY -> LimitValues]}
        \cup {[base EXCEPT !.LocalTotalAnnualMaxCapacityInvestment = v,
                           !.HubLocation = hl, !.HubTechnology = ht] :
                v \in [LTY -> LimitValues], hl \in [base.LOCATION -> {0, 1}],
                ht \in [base.TECHNOLOGY -> {0, 1}]}
        \cup {[base EXCEPT !.TotalTechnologyAnnualActivityUpperLimit = v] :
                v \in [RTY -> LimitValues]}
        \cup {[base EXCEPT !.TotalTechnologyModelPeriodActivityUpperLimit = v] :
                v \in [RT -> LimitValues]}
        \cup {[base EXCEPT !.AnnualEmissionLimit = v, !.AnnualExogenousEmission = x] :
                v \in [REY -> LimitValues], x \in [REY -> {Zero, One}]}
        \cup {[base EXCEPT !.ModelPeriodEmissionLimit = v] : v \in [RE -> LimitValues]}

InitLimit ==
    Start(LimitInputs, <<"TF1a", "TF1b", "TCC1", "NCC1", "AAC2", "TAC2", "E9", "E10",
                         "TCC1_plain">>)
NextLimit ==
    \/ TF1a_Transport_1a
    \/ TF1b_Transport_1b
    \/ TCC1_TotalAnnualMaxCapacityConstraint
    \/ NCC1_LocalTotalAnnualMaxNewCapacityConstraint
    \/ AAC2_TotalAnnualTechnologyActivityUpperLimit
    \/ TAC2_TotalModelHorizonTechnologyActivityUpperLimit
    \/ E9_AnnualEmissionsLimit
    \/ E10_ModelPeriodEmissionsLimit
    \/ TCC1_TotalAnnualMaxCapacityConstraint_plain
SpecLimit == InitLimit /\ [][NextLimit]_vars

\* what an upper-limit family is expected to do on an index tuple: its limit
\* parameter, whether a hub or route condition of the family skips the tuple, and
\* the columns and right-hand side of its row
Expected(fam, i) ==
    CASE fam = "TCC1" ->
           [limit |-> TotalAnnualMaxCapacity(i[1], i[2], i[3]), skip |-> FALSE,
            lhs |-> {[x |-> TotalCapacity(i[1], i[2], i[3]), c |-> One]},
            rhs |-> TotalAnnualMaxCapacity(i[1], i[2], i[3])]
      [] fam = "NCC1" ->
           [limit |-> LocalTotalAnnualMaxCapacityInvestment(i[1], i[2], i[3]),
            skip |-> HubLocation(i[1]) # HubTechnology(i[2]),
            lhs |-> {[x |-> LocalNewCapacity(i[1], i[2], i[3]), c |-> One]},
            rhs |-> LocalTotalAnnualMaxCapacityInvestment(i[1], i[2], i[3])]
      [] fam = "AAC2" ->
           [limit |-> TotalTechnologyAnnualActivityUpperLimit(i[1], i[2], i[3]),
            skip |-> FALSE,
            lhs |-> {[x |-> Activity(i[1], i[2], i[3]), c |-> One]},
            rhs |-> TotalTechnologyAnnualActivityUpperLimit(i[1], i[2], i[3])]
      [] fam = "TAC2" ->
           [limit |-> TotalTechnologyModelPeriodActivityUpperLimit(i[1], i[2]),
            skip |-> FALSE,
            lhs |-> {[x |-> ModelPeriodActivity(i[1], i[2]), c |-> One]},
            rhs |-> TotalTechnologyModelPeriodActivityUpperLimit(i[1], i[2])]
      [] fam = "E9" ->
           [limit |-> AnnualEmissionLimit(i[1], i[2], i[3]), skip |-> FALSE,
            lhs |-> {[x |-> AnnualEmissions(i[1], i[2], i[3]), c |-> One]},
            rhs |-> Sub(AnnualEmissionLimit(i[1], i[2], i[3]),
                        AnnualExogenousEmission(i[1], i[2], i[3]))]
      [] fam = "E10" ->
           [limit |-> ModelPeriodEmissionLimit(i[1], i[2]), skip |-> FALSE,
            lhs |-> {[x |-> ModelPeriodEmissions(i[1], i[2]), c |-> One]},
            rhs |-> ModelPeriodEmissionLimit(i[1], i[2])]
      [] fam = "TF1a" ->
           [limit |-> TransportCapacity(i[1], i[2], i[3], i[4], i[5]),
            skip |-> ~(TransportRoute(i[1], i[2], i[3], i[4], i[5]) = 1
                       /\ MultiPurposeTransport(i[4]) = 0),
            lhs |-> IF i[1] = i[2]
                    THEN {[x |-> Transport(i[1], i[2], i[3], i[4], i[5]), c |-> N(2)]}
                    ELSE {[x |-> Transport(i[1], i[2], i[3], i[4], i[5]), c |-> One]}
                         \cup IF TransportRoute(i[2], i[1], i[3], i[4], i[5]) = 1
                              THEN {[x |-> Transport(i[2], i[1], i[3], i[4], i[5]), c |-> One]}
                              ELSE {},
            rhs |-> Mul(TransportCapacity(i[1], i[2], i[3], i[4], i[5]),
                        N(TransportCapacityToActivity(i[4])))]

UpperLimitFamilies == {"TCC1", "NCC1", "AAC2", "TAC2", "E9", "E10", "TF1a"}

\* C3: for each upper-limit family of the hub variants and each index tuple, both
\* backends emit no record when the limit parameter equals HighMaxDefault; for every
\* other value they emit exactly one record, a <= row with the family's columns and
\* the right-hand side derived from the parameter, unless the family's own skip
\* applies (NCC1: the hub flags of location and technology differ; TF1a: no route
\* from l to ll, or a multi-purpose mode), in which case they emit nothing.
C3_SentinelOmitsElseLeqRow ==
    \A c \in done : c.fam \in UpperLimitFamilies =>
        LET e == Expected(c.fam, c.idx)
        IN  \A sys \in {tiny, pyo} :
              IF e.limit = HighMaxDefault \/ e.skip
              THEN RowsOf(sys, c.fam, c.idx) = {}
              ELSE /\ Cardinality(RowsOf(sys, c.fam, c.idx)) = 1
                   /\ TheRow(sys, c.fam, c.idx).lhs = e.lhs
                   /\ TheRow(sys, c.fam, c.idx).sense = "<="
                   /\ TheRow(sys, c.fam, c.idx).rhs = e.rhs

\* witness of C3: the whole system is generated, with a transport capacity at the
\* sentinel on one route and a finite one on another, both on a regular mode
C3_Witness ==
    /\ queue = <<>>
    /\ \E a, b \in done :
         /\ a.fam = "TF1a" /\ b.fam = "TF1a"
         /\ ~Expected("TF1a", a.idx).skip /\ ~Expected("TF1a", b.idx).skip
         /\ Expected("TF1a", a.idx).limit = HighMaxDefault
         /\ RowsOf(tiny, "TF1a", b.idx) # {}

\* C4: no <= record of any variant (hub sparse-row, hub symbolic, plain) has a
\* right-hand side that carries the sentinel or a value computed from it.
C4_NoSentinelRhs ==
    \A sys \in {tiny, pyo, plain} : \A rec \in sys : rec.sense = "<=" => rec.rhs.h = 0

\* the shadow build: every rule call emits the row it builds, whatever the value of
\* the limit parameter
ShadowRows(fam, i) ==
    CASE fam = "TF1a" -> TF1a_Routed(i[1], i[2], i[3], i[4], i[5])
      [] fam = "TF1b" -> TF1b_Transport_1b_rule(i[1], i[2], i[3], i[4])
      [] fam = "TCC1" -> TCC1_Row(i[1], i[2], i[3])
      [] fam = "NCC1" -> NCC1_Row(i[1], i[2], i[3])
      [] fam = "AAC2" -> AAC2_Row(i[1], i[2], i[3])
      [] fam = "TAC2" -> TAC2_Row(i[1], i[2])
      [] fam = "E9" -> E9_Row(i[1], i[2], i[3])
      [] fam = "E10" -> E10_Row(i[1], i[2])
      [] OTHER -> {}

Shadow == UNION {ShadowRows(c.fam, c.idx) : c \in done}

\* points: a value for every column of the shadow system, non-zero on at most
\* MaxSupport columns; the non-zero values are a finite value above every finite
\* limit, and twice the sentinel
PointValues == {N(MaxLimit + 1), [h |-> 2, n |-> 0, d |-> 1]}
Points ==
    LET cols == UNION {Columns(rec) : rec \in Shadow}
    IN  UNION {{[x \in cols |-> IF x \in S THEN f[x] ELSE Zero] : f \in [S -> PointValues]} :
                 S \in {U \in SUBSET cols : Cardinality(U) <= MaxSupport}}

Satisfies(rec, pt) ==
    LET ts == SeqOf(rec.lhs)
        v == SumSeq([j \in 1..Len(ts) |-> Mul(ts[j].c, pt[ts[j].x])])
    IN  CASE rec.sense = "<=" -> Leq(v, rec.rhs)
          [] rec.sense = "==" -> v = rec.rhs
          [] rec.sense = ">=" -> Leq(rec.rhs, v)

Feasible(sys, pt) == \A rec \in sys : Satisfies(rec, pt)

MaxOf(S) == CHOOSE m \in S : \A x \in S : x <= m

RECURSIVE Pow(_, _)
Pow(b, e) == IF e = 0 THEN 1 ELSE b * Pow(b, e - 1)

Root(b) == CHOOSE s \in 0..b : s * s = b

SV1_BeyondHorizonMutant(r, t, y) ==
    2 * y + TimeStep(y) + 2 * OperationalLife(r, t) - 2
        >= 2 * MaxOf(YEAR) + TimeStep(MaxOf(YEAR))

\* (y + TimeStep(y)/2 + OperationalLife(r,t) - 1) > (max(YEAR) + TimeStep(max(YEAR))/2)
SV1_BeyondHorizon(r, t, y) ==
    2 * y + TimeStep(y) + 2 * OperationalLife(r, t) - 2
        > 2 * MaxOf(YEAR) + TimeStep(MaxOf(YEAR))

\* twice: max(YEAR) + TimeStep(max(YEAR))/2 - (y - TimeStep(y)/2 + 1) + 1
SV1_Exponent2(y) == 2 * MaxOf(YEAR) + TimeStep(MaxOf(YEAR)) - (2 * y - TimeStep(y) + 2) + 2

\* which arm of the if / elif / else chain runs
SV1_Case(r, t, y) ==
    IF DepreciationMethod(r) = 1 /\ SV1_BeyondHorizon(r, t, y) /\ ~Leq(DiscountRate(r), Zero)
    THEN {"declining"}
    ELSE IF \/ (DepreciationMethod(r) = 1 /\ SV1_BeyondHorizon(r, t, y)
                /\ DiscountRate(r) = Zero)
            \/ (DepreciationMethod(r) = 2 /\ SV1_BeyondHorizon(r, t, y))
    THEN {"straight"}
    ELSE {"zero"}

\* 1 - ((1 + DiscountRate)**exponent - 1) / ((1 + DiscountRate)**OperationalLife - 1)
SV1_DecliningFactor(r, t, y) ==
    LET base == 1 + DiscountRate(r).n
    IN  Sub(One, Norm(0, Pow(Root(base), SV1_Exponent2(y)) - 1,
                      Pow(base, OperationalLife(r, t)) - 1))

\* 1 - exponent / OperationalLife
SV1_StraightFactor(r, t, y) == Sub(One, Norm(0, SV1_Exponent2(y), 2 * OperationalLife(r, t)))

\* 1 - (max(YEAR) - y + 1) / OperationalLife
SV1_StraightFactor_plain(r, t, y) ==
    Sub(One, Norm(0, MaxOf(YEAR) - y + 1, OperationalLife(r, t)))

SV1_SalvageValueAtEndOfPeriod_rule(r, t, y) ==
    LET cc == N(CapitalCost(r, t, y))
    IN  IF "declining" \in SV1_Case(r, t, y)
        THEN {Record("SV1", <<r, t, y>>,
                     <<Term(One, SalvageValue(r, t, y)),
                       Term(Mul(Mul(N(-1), cc), SV1_DecliningFactor(r, t, y)),
                            NewCapacity(r, t, y))>>, "==", Zero)}
        ELSE IF "straight" \in SV1_Case(r, t, y)
        THEN {Record("SV1", <<r, t, y>>,
                     <<Term(One, SalvageValue(r, t, y)),
                       Term(Mul(Mul(N(-1), cc), SV1_StraightFactor(r, t, y)),
                            SalvageValue(r, t, y))>>, "==", Zero)}
        ELSE {Record("SV1", <<r, t, y>>, <<Term(One, SalvageValue(r, t, y))>>, "==", Zero)}

SV1_SalvageValueAtEndOfPeriod_rule_pyomo(r, t, y) ==
    LET cc == N(CapitalCost(r, t, y))
    IN  IF "declining" \in SV1_Case(r, t, y)
        THEN {Relation("SV1", <<r, t, y>>, V(SalvageValue(r, t, y)), "==",
                       Scale(SV1_DecliningFactor(r, t, y), Scale(cc, V(NewCapacity(r, t, y)))))}
        ELSE IF "straight" \in SV1_Case(r, t, y)
        THEN {Relation("SV1", <<r, t, y>>, V(SalvageValue(r, t, y)), "==",
                       Scale(SV1_StraightFactor(r, t, y), Scale(cc, V(NewCapacity(r, t, y)))))}
        ELSE {Relation("SV1", <<r, t, y>>, V(SalvageValue(r, t, y)), "==", K(Zero))}

SV1_SalvageValueAtEndOfPeriod_rule_plain(r, t, y) ==
    LET cc == N(CapitalCost(r, t, y))
    IN  IF "declining" \in SV1_Case(r, t, y)
        THEN {Relation("SV1", <<r, t, y>>, V(SalvageValue(r, t, y)), "==",
                       Scale(SV1_DecliningFactor(r, t, y), Scale(cc, V(NewCapacity(r, t, y)))))}
        ELSE IF "straight" \in SV1_Case(r, t, y)
        THEN {Relation("SV1", <<r, t, y>>, V(SalvageValue(r, t, y)), "==",
                       Scale(SV1_StraightFactor_plain(r, t, y),
                             Scale(cc, V(NewCapacity(r, t, y)))))}
        ELSE {Relation("SV1", <<r, t, y>>, V(SalvageValue(r, t, y)), "==", K(Zero))}

\* The non-zero branches divide by OperationalLife(r, t), or by
\* (1 + DiscountRate(r)) ** OperationalLife(r, t) - 1.  No statement of the rule
\* tests these for zero.  What a division by zero does depends on the number type
\* the parameter lookup returns: a Python number raises ZeroDivisionError, which
\* ends the construction; a numpy scalar yields inf or nan and the rule returns.
SV1_Outcomes(r, t, y) ==
    IF SV1_Case(r, t, y) # {"zero"} /\ OperationalLife(r, t) = 0
    THEN {"ZeroDivisionError", "inf"}
    ELSE {"finite"}

\* an exception leaves the constructor: no further rule is called
Raise(error) ==
    /\ fired' = fired \cup Took({error})
    /\ done' = done \cup {[fam |-> Head(queue), idx |-> Cur]}
    /\ queue' = <<>> /\ k' = 1
    /\ UNCHANGED <<input, tiny, pyo, plain>>

SV1_SalvageValueAtEndOfPeriod ==
    /\ At("SV1")
    /\ \E out \in SV1_Outcomes(Cur[1], Cur[2], Cur[3]) :
          IF out = "ZeroDivisionError"
          THEN Raise(out)
          ELSE /\ tiny' = tiny \cup SV1_SalvageValueAtEndOfPeriod_rule(Cur[1], Cur[2], Cur[3])
               /\ pyo' = pyo \cup
                         SV1_SalvageValueAtEndOfPeriod_rule_pyomo(Cur[1], Cur[2], Cur[3])
               /\ fired' = fired \cup Took(SV1_Case(Cur[1], Cur[2], Cur[3]))
               /\ Advance
               /\ UNCHANGED plain

SV1_SalvageValueAtEndOfPeriod_plain ==
    /\ At("SV1_plain")
    /\ \E out \in SV1_Outcomes(Cur[1], Cur[2], Cur[3]) :
          IF out = "ZeroDivisionError"
          THEN Raise(out)
          ELSE /\ plain' = plain \cup
                           SV1_SalvageValueAtEndOfPeriod_rule_plain(Cur[1], Cur[2], Cur[3])
               /\ fired' = fired \cup Took(SV1_Case(Cur[1], Cur[2], Cur[3]))
               /\ Advance
               /\ UNCHANGED <<tiny, pyo>>

(***************************************************************************)
(* Specification SpecSalvage: SV1 on one region and one technology, for    *)
(* every depreciation method, discount rate, operational life, time step   *)
(* and capital cost of the bounds                                          *)
(***************************************************************************)
TimeSteps == {0, 2, MaxStep}

SalvageInputs ==
    LET base == [EmptyInput EXCEPT !.YEAR = 1..MaxYear, !.REGION = {"ra"},
                                   !.TECHNOLOGY = {"ta"}]
        RTY == base.REGION \X base.TECHNOLOGY \X base.YEAR
    IN  {[base EXCEPT !.DepreciationMethod = dm, !.DiscountRate = dr,
                      !.OperationalLife = ol, !.TimeStep = ts, !.CapitalCost = cc] :
            dm \in [base.REGION -> {1, 2}], dr \in [base.REGION -> {Zero, N(3)}],
            ol \in [base.REGION \X base.TECHNOLOGY -> 0..MaxLife],
            ts \in [base.YEAR -> TimeSteps], cc \in [RTY -> 0..MaxCost]}

InitSalvage == Start(SalvageInputs, <<"SV1", "SV1_plain">>)
NextSalvage == SV1_SalvageValueAtEndOfPeriod \/ SV1_SalvageValueAtEndOfPeriod_plain
SpecSalvage == InitSalvage /\ [][NextSalvage]_vars

\* C2: for the same input the sparse-row backend and the symbolic backend of the hub
\* variant take the same emit / skip decision on every index tuple of every family
\* and emit records with the same columns, coefficients, comparison operator and
\* right-hand side.
C2_BackendsEmitSameRecords ==
    \A c \in done : RowsOf(tiny, c.fam, c.idx) = RowsOf(pyo, c.fam, c.idx)

\* a record that forces SalvageValue(r, t, y) to 0
ZeroOutcome(rec) ==
    /\ Columns(rec) = {SalvageValue(rec.idx[1], rec.idx[2], rec.idx[3])}
    /\ rec.sense = "==" /\ rec.rhs = Zero

\* C10: every call of SV1, in each backend and variant, takes exactly one of the
\* three cases, and, for a technology with a capital cost, a record that forces
\* SalvageValue to 0 comes from the zero case only.
C10_ZeroOnlyFromZeroCase ==
    \A c \in done :
        /\ Cardinality(BranchesTaken(c.fam, c.idx)) = 1
        /\ CapitalCost(c.idx[1], c.idx[2], c.idx[3]) # 0 =>
              \A rec \in RowsOf(tiny, "SV1", c.idx) \cup RowsOf(pyo, "SV1", c.idx)
                         \cup RowsOf(plain, "SV1", c.idx) :
                  ZeroOutcome(rec) => BranchesTaken(c.fam, c.idx) = {"zero"}

\* the fraction by which the branch taken multiplies CapitalCost * NewCapacity
SV1_Fraction(fam, r, t, y) ==
    IF "declining" \in SV1_Case(r, t, y) THEN SV1_DecliningFactor(r, t, y)
    ELSE IF "straight" \in SV1_Case(r, t, y)
    THEN IF fam = "SV1_plain" THEN SV1_StraightFactor_plain(r, t, y)
         ELSE SV1_StraightFactor(r, t, y)
    ELSE Zero

SalvageFamilies == {"SV1", "SV1_plain"}

\* the call returned a record (it did not raise)
Returned(c) ==
    RowsOf(tiny, "SV1", c.idx) \cup RowsOf(pyo, "SV1", c.idx) \cup RowsOf(plain, "SV1", c.idx) # {}

\* C11: for every (region, technology, year), operational life, time step and
\* non-negative discount rate, the salvage fraction by which SV1 multiplies
\* CapitalCost * NewCapacity is greater than or equal to 0, in each variant.
C11_SalvageFractionNonNegative ==
    \A c \in done :
        c.fam \in SalvageFamilies /\ Returned(c) =>
            Leq(Zero, SV1_Fraction(c.fam, c.idx[1], c.idx[2], c.idx[3]))

\* the life of capacity installed in year y ends at or before the end of the
\* horizon: y + TimeStep(y)/2 + OperationalLife - 1 <= max(YEAR) + TimeStep(max(YEAR))/2
EndsWithinHorizon(r, t, y) ==
    2 * (y + OperationalLife(r, t) - 1) + TimeStep(y) <= 2 * MaxOf(YEAR) + TimeStep(MaxOf(YEAR))

\* the systems the family fam writes to
SystemsOf(fam) == IF fam = "SV1_plain" THEN {plain} ELSE {tiny, pyo}

Aborted(c) == \E f \in fired : f.fam = c.fam /\ f.idx = c.idx /\ f.br = "ZeroDivisionError"

\* C14: a zero OperationalLife or a zero time step reaching the salvage formulas
\* aborts the construction, and no record is ever emitted whose coefficient is
\* infinite or results from a division by zero.
C14_ZeroLifeOrStepIsFatal ==
    /\ \A c \in done :
           /\ c.fam \in SalvageFamilies
           /\ (OperationalLife(c.idx[1], c.idx[2]) = 0 \/ TimeStep(c.idx[3]) = 0)
           => Aborted(c) /\ ~Returned(c)
    /\ \A rec \in tiny \cup pyo \cup plain : \A e \in rec.lhs : IsFinite(e.c)

(***************************************************************************)
(* Discounting: CC2, OC4, TC2 and E6 of the hub variants.  A cost of year  *)
(* y is divided by (1 + rate) ** exponent; exponents with TimeStep / 2 are *)
(* carried doubled, as in SV1                                              *)
(***************************************************************************)
MinOf(S) == CHOOSE m \in S : \A x \in S : m <= x

\* sum(DiscountRate(r) * Geography(r, l) for r in REGION)
LocalDiscountRate(l) ==
    SumSeq([j \in 1..Cardinality(REGION) |->
               Mul(DiscountRate(SeqOf(REGION)[j]), N(Geography(SeqOf(REGION)[j], l)))])

\* 1 / ((1 + rate) ** (e2 / 2))
DiscountFactor(rate, e2) == Norm(0, 1, Pow(Root(1 + rate.n), e2))

\* twice: y - min(YEAR)
CC2_Exponent2(y) == 2 * (y - MinOf(YEAR))

OC4_Exponent2Mutant(y) == 2 * (1 + y) - (2 * MinOf(YEAR) - 2 * TimeStep(MinOf(YEAR)) + 2)

\* twice: 1 + y - (min(YEAR) - TimeStep(min(YEAR)) / 2 + 1)
OC4_Exponent2(y) == 2 * (1 + y) - (2 * MinOf(YEAR) - TimeStep(MinOf(YEAR)) + 2)

\* lhs = [(1, discounted), (-1 / ((1 + rate) ** exponent), undiscounted)], rhs = 0
DiscountRow(fam, idx, discounted, undiscounted, rate, e2) ==
    Record(fam, idx, <<Term(One, discounted),
                       Term(Mul(N(-1), DiscountFactor(rate, e2)), undiscounted)>>, "==", Zero)

\* discounted == undiscounted / ((1 + rate) ** exponent)
DiscountRelation(fam, idx, discounted, undiscounted, rate, e2) ==
    Relation(fam, idx, V(discounted), "==", Scale(DiscountFactor(rate, e2), V(undiscounted)))

CC2_DiscountedCapitalInvestment_1_rule(l, t, y) ==
    IF HubGuard(l, t) # {}
    THEN {DiscountRow("CC2", <<l, t, y>>, LocalDiscountedCapitalInvestment(l, t, y),
                      LocalCapitalInvestment(l, t, y), LocalDiscountRate(l), CC2_Exponent2(y))}
    ELSE {}

CC2_DiscountedCapitalInvestment_1_rule_pyomo(l, t, y) ==
    IF HubGuard(l, t) # {}
    THEN {DiscountRelation("CC2", <<l, t, y>>, LocalDiscountedCapitalInvestment(l, t, y),
                           LocalCapitalInvestment(l, t, y), LocalDiscountRate(l),
                           CC2_Exponent2(y))}
    ELSE {}

OC4_DiscountedOperatingCostsTotalAnnual_1_rule(l, t, y) ==
    IF HubGuard(l, t) # {}
    THEN {DiscountRow("OC4", <<l, t, y>>, LocalDiscountedOperatingCost(l, t, y),
                      LocalOperatingCost(l, t, y), LocalDiscountRate(l), OC4_Exponent2(y))}
    ELSE {}

OC4_DiscountedOperatingCostsTotalAnnual_1_rule_pyomo(l, t, y) ==
    IF HubGuard(l, t) # {}
    THEN {DiscountRelation("OC4", <<l, t, y>>, LocalDiscountedOperatingCost(l, t, y),
                           LocalOperatingCost(l, t, y), LocalDiscountRate(l),
                           OC4_Exponent2(y))}
    ELSE {}

TC2_DiscountedLocalTransportCosts_rule(l, p, y) ==
    {DiscountRow("TC2", <<l, p, y>>, LocalDiscountedTransportCost(l, p, y),
                 LocalTransportCost(l, p, y), LocalDiscountRate(l), OC4_Exponent2(y))}

TC2_DiscountedLocalTransportCosts_rule_pyomo(l, p, y) ==
    {DiscountRelation("TC2", <<l, p, y>>, LocalDiscountedTransportCost(l, p, y),
                      LocalTransportCost(l, p, y), LocalDiscountRate(l), OC4_Exponent2(y))}

E6_DiscountedEmissionsPenaltyByTechnology_rule(r, t, y) ==
    {DiscountRow("E6", <<r, t, y>>, DiscountedTechnologyEmissionsPenalty(r, t, y),
                 AnnualTechnologyEmissionsPenalty(r, t, y), DiscountRate(r), OC4_Exponent2(y))}

E6_DiscountedEmissionsPenaltyByTechnology_rule_pyomo(r, t, y) ==
    {DiscountRelation("E6", <<r, t, y>>, DiscountedTechnologyEmissionsPenalty(r, t, y),
                      AnnualTechnologyEmissionsPenalty(r, t, y), DiscountRate(r),
                      OC4_Exponent2(y))}

CC2_DiscountedCapitalInvestment_1_constraint ==
    /\ At("CC2")
    /\ tiny' = tiny \cup CC2_DiscountedCapitalInvestment_1_rule(Cur[1], Cur[2], Cur[3])
    /\ pyo' = pyo \cup CC2_DiscountedCapitalInvestment_1_rule_pyomo(Cur[1], Cur[2], Cur[3])
    /\ fired' = fired \cup Took(HubGuard(Cur[1], Cur[2]))
    /\ Advance
    /\ UNCHANGED plain

OC4_DiscountedOperatingCostsTotalAnnual_1 ==
    /\ At("OC4")
    /\ tiny' = tiny \cup OC4_DiscountedOperatingCostsTotalAnnual_1_rule(Cur[1], Cur[2], Cur[3])
    /\ pyo' = pyo \cup
              OC4_DiscountedOperatingCostsTotalAnnual_1_rule_pyomo(Cur[1], Cur[2], Cur[3])
    /\ fired' = fired \cup Took(HubGuard(Cur[1], Cur[2]))
    /\ Advance
    /\ UNCHANGED plain

TC2_DiscountedLocalTransportCosts ==
    /\ At("TC2")
    /\ tiny' = tiny \cup TC2_DiscountedLocalTransportCosts_rule(Cur[1], Cur[2], Cur[3])
    /\ pyo' = pyo \cup TC2_DiscountedLocalTransportCosts_rule_pyomo(Cur[1], Cur[2], Cur[3])
    /\ Advance
    /\ UNCHANGED <<fired, plain>>

E6_DiscountedEmissionsPenaltyByTechnology ==
    /\ At("E6")
    /\ tiny' = tiny \cup E6_DiscountedEmissionsPenaltyByTechnology_rule(Cur[1], Cur[2], Cur[3])
    /\ pyo' = pyo \cup
              E6_DiscountedEmissionsPenaltyByTechnology_rule_pyomo(Cur[1], Cur[2], Cur[3])
    /\ Advance
    /\ UNCHANGED <<fired, plain>>

(***************************************************************************)
(* Specification SpecDiscount: the four discounting families on one        *)
(* location of one region, for every discount rate, time step and hub flag *)
(***************************************************************************)
DiscountInputs ==
    LET base == [EmptyInput EXCEPT !.YEAR = 1..MaxYear, !.REGION = {"ra"},
                                   !.LOCATION = {"la"}, !.TECHNOLOGY = {"ta"},
                                   !.PRODUCT = {"pa"},
                                   !.Geography = [x \in {<<"ra", "la">>} |-> 1]]
    IN  {[base EXCEPT !.DiscountRate = dr, !.TimeStep = ts, !.HubLocation = hl,
                      !.HubTechnology = ht] :
            dr \in [base.REGION -> {Zero, N(3)}], ts \in [base.YEAR -> TimeSteps],
            hl \in [base.LOCATION -> {0, 1}], ht \in [base.TECHNOLOGY -> {0, 1}]}

InitDiscount == Start(DiscountInputs, <<"CC2", "OC4", "TC2", "E6">>)
NextDiscount ==
    \/ CC2_DiscountedCapitalInvestment_1_constraint
    \/ OC4_DiscountedOperatingCostsTotalAnnual_1
    \/ TC2_DiscountedLocalTransportCosts
    \/ E6_DiscountedEmissionsPenaltyByTechnology
SpecDiscount == InitDiscount /\ [][NextDiscount]_vars

DiscountFamilies == {"CC2", "OC4", "TC2", "E6"}

\* the undiscounted column of a discounting record
Undiscounted(fam, idx) ==
    CASE fam = "CC2" -> LocalCapitalInvestment(idx[1], idx[2], idx[3])
      [] fam = "OC4" -> LocalOperatingCost(idx[1], idx[2], idx[3])
      [] fam = "TC2" -> LocalTransportCost(idx[1], idx[2], idx[3])
      [] fam = "E6" -> AnnualTechnologyEmissionsPenalty(idx[1], idx[2], idx[3])

\* the rate a family discounts with
RateOf(fam, idx) == IF fam = "E6" THEN DiscountRate(idx[1]) ELSE LocalDiscountRate(idx[1])

\* the discounting records of the first year, of both backends
BaseYearRows ==
    {rec \in tiny \cup pyo : rec.fam \in DiscountFamilies /\ rec.idx[3] = MinOf(YEAR)}

\* C13 (as stated): for y = min(YEAR) every discounting row (CC2, OC4, TC2, E6)
\* relates the discounted variable to the undiscounted one with a factor of
\* exactly 1.
C13_BaseYearFactorIsOne ==
    \A rec \in BaseYearRows : Coef(rec, Undiscounted(rec.fam, rec.idx)) = N(-1)

\* C13 (amended): for y = min(YEAR) the CC2 row has factor exactly 1; the OC4, TC2
\* and E6 rows have factor 1 / (1 + rate) ** (TimeStep(min(YEAR)) / 2), which is
\* 1 exactly when TimeStep(min(YEAR)) = 0 or the discount rate is 0.
C13_BaseYearFactorHalfStep ==
    \A rec \in BaseYearRows :
        LET c == Coef(rec, Undiscounted(rec.fam, rec.idx))
            rate == RateOf(rec.fam, rec.idx)
            step == TimeStep(MinOf(YEAR))
        IN  IF rec.fam = "CC2" THEN c = N(-1)
            ELSE /\ c.n < 0
                 /\ c.d * c.d = c.n * c.n * Pow(1 + rate.n, step)
                 /\ (c = N(-1)) <=> (step = 0 \/ rate = Zero)

\* an operating-cost row of the first year with a positive first time step and a
\* positive rate, whose factor is below 1
C13_Witness ==
    \E rec \in BaseYearRows :
        /\ rec.fam = "OC4" /\ TimeStep(MinOf(YEAR)) > 0 /\ RateOf(rec.fam, rec.idx) # Zero
        /\ Coef(rec, Undiscounted(rec.fam, rec.idx)) # N(-1)
        /\ \E other \in BaseYearRows : other.fam = "CC2"

(***************************************************************************)
(* Index values a rule reads with.  R1 of the retrofit variant            *)
(* (itom_hub_retrofit_tinyomo) looks back to the year y - TimeStep(y); the *)
(* non-hub arm of TF2 in itom_hub_tinyomo makes one lookup with fixed      *)
(* labels, whose result it discards.  A lookup never fails: outside the    *)
(* table it yields the default                                             *)
(***************************************************************************)
R1_Skip(l, t, y) ==
    HubLocation(l) = 1 \/ y = MinOf(YEAR) \/ TechnologyToRetrofit(t) = 0

\* LocalResidualCapacity(l, t, y - TimeStep(y)) - LocalResidualCapacity(l, t, y)
R1_Retired(l, t, y) ==
    LocalResidualCapacity(l, t, y - TimeStep(y)) - LocalResidualCapacity(l, t, y)

R1_RetrofitPotentialFromResidualCapacity_rule(l, t, y) ==
    IF R1_Skip(l, t, y) THEN {}
    ELSE IF R1_Retired(l, t, y) > 0
    THEN {Record("R1", <<l, t, y>>, <<Term(One, PotentialRetrofitFromResidual(l, t, y))>>,
                 "==", N(R1_Retired(l, t, y)))}
    ELSE {Record("R1", <<l, t, y>>, <<Term(One, PotentialRetrofitFromResidual(l, t, y))>>,
                 "==", Zero)}

R1_RetrofitPotentialFromResidualCapacity ==
    /\ At("R1")
    /\ tiny' = tiny \cup R1_RetrofitPotentialFromResidualCapacity_rule(Cur[1], Cur[2], Cur[3])
    /\ Advance
    /\ UNCHANGED <<fired, pyo, plain>>

\* the years R1 reads LocalResidualCapacity with
R1_YearsRead(l, t, y) == IF R1_Skip(l, t, y) THEN {} ELSE {y - TimeStep(y), y}

\* the location labels TF2 reads TransportRoute with, in the second position
TF2_LocationsRead(l) == LOCATION \cup (IF HubLocation(l) = 0 THEN {"DELTA_DEMAND"} ELSE {})

\* the transport-mode labels TF2 reads TransportRoute with
TF2_ModesRead(l) == TRANSPORTMODE \cup (IF HubLocation(l) = 0 THEN {"ONSITE"} ELSE {})

(***************************************************************************)
(* Specification SpecReference: TF2 and R1 on one location, with and       *)
(* without the labels DELTA_DEMAND and ONSITE in the sets, for every time  *)
(* step up to the length of the horizon                                    *)
(***************************************************************************)
ReferenceInputs ==
    LET base == [EmptyInput EXCEPT !.YEAR = 1..MaxYear, !.TECHNOLOGY = {"ta"},
                                   !.PRODUCT = {"pa"}]
    IN  {[base EXCEPT !.LOCATION = {"la"} \cup dd, !.TRANSPORTMODE = {"tra"} \cup os,
                      !.HubLocation = [x \in {"la"} |-> hl],
                      !.TechnologyToRetrofit = [x \in {"ta"} |-> ttr],
                      !.TimeStep = ts,
                      !.LocalResidualCapacity = [x \in {<<"la", "ta", 1>>} |-> lrc],
                      !.TransportRoute =
                          [x \in {<<"la", "la", "pa", "tra", y>> : y \in routed} |-> 1]] :
            dd \in {{}, {"DELTA_DEMAND"}}, os \in {{}, {"ONSITE"}}, hl \in {0, 1},
            ttr \in {0, 1}, ts \in [base.YEAR -> 0..MaxYear], lrc \in {0, 1},
            routed \in {{}, base.YEAR}}

InitReference == Start(ReferenceInputs, <<"TF2", "R1">>)
NextReference == TF2_Transport_2 \/ R1_RetrofitPotentialFromResidualCapacity
SpecReference == InitReference /\ [][NextReference]_vars

\* C15: every parameter lookup made while generating a record uses index values
\* that are members of the declared sets, including the year y - TimeStep(y)
\* that R1 looks back to and the location and transport-mode labels used inside
\* TF2.
C15_LookupsUseMembers ==
    \A c \in done :
        /\ c.fam = "R1" => R1_YearsRead(c.idx[1], c.idx[2], c.idx[3]) \subseteq YEAR
        /\ c.fam = "TF2" => /\ TF2_LocationsRead(c.idx[1]) \subseteq LOCATION
                            /\ TF2_ModesRead(c.idx[1]) \subseteq TRANSPORTMODE

(***************************************************************************)
(* The transport links, written to TransportRoute.csv and                  *)
(* TransportCapacity.csv before the load:                                  *)
(* helpers/build_input_data._build_transport_params                        *)
(***************************************************************************)
\* 'TRANSPORT_HUB_' + r
TRANSPORT_HUB(r) ==
    CASE r = "ra" -> "TRANSPORT_HUB_ra"
      [] r = "rb" -> "TRANSPORT_HUB_rb"

\* str.contains('TRANSPORT_HUB')
ContainsTransportHub(loc) == loc \in {"TRANSPORT_HUB_ra", "TRANSPORT_HUB_rb"}

\* LOCATION.csv and Geography.csv without the hub rows
df_loc == {loc \in LOCATION : ~ContainsTransportHub(loc)}
df_geo == {g \in DOMAIN input.Geography : ~ContainsTransportHub(g[2])}

RELEVANT_LOCATION_Mutant(r) == {g[2] : g \in {e \in df_geo : e[1] = r}}

RELEVANT_LOCATION(r) ==
    {g[2] : g \in {e \in df_geo : e[1] = r /\ input.Geography[e] = 1}}

\* the keys appended to data when config['transport']['hub'] is set
HubData ==
    UNION {{<<loc, loc, p, "ONSITE", y>>,
            <<loc, TRANSPORT_HUB(r), p, "OTHER", y>>,
            <<TRANSPORT_HUB(r), loc, p, "OTHER", y>>} :
              <<r, loc, p, y>> \in
                  {e \in REGION \X {g[2] : g \in df_geo} \X PRODUCT \X YEAR :
                      e[2] \in RELEVANT_LOCATION(e[1])}}
    \cup {<<TRANSPORT_HUB(e[1]), TRANSPORT_HUB(e[2]), e[3], "INTER_REG", e[4]>> :
              e \in {x \in REGION \X REGION \X PRODUCT \X YEAR : x[1] # x[2]}}

\* the keys appended to data otherwise
NoHubData ==
    {<<e[1], e[2], e[3], IF e[1] = e[2] THEN "ONSITE" ELSE "OTHER", e[4]>> :
        e \in df_loc \X df_loc \X PRODUCT \X YEAR}

data == IF input.hub THEN HubData ELSE NoHubData

\* the generated rows followed by the rows of TransportRoute_pipeline.csv
df_tr_route ==
    [e \in data \cup DOMAIN input.TransportRoute_pipeline |->
        IF e \in data THEN 1 ELSE input.TransportRoute_pipeline[e]]

\* the generated rows followed by the rows of TransportCapacity_pipeline.csv
df_tr_cap ==
    [e \in data \cup DOMAIN input.TransportCapacity_pipeline |->
        IF e \in data THEN HighMaxDefault ELSE input.TransportCapacity_pipeline[e]]

build_transport_params ==
    /\ At("_build_transport_params")
    /\ input' = [input EXCEPT !.TransportRoute = df_tr_route, !.TransportCapacity = df_tr_cap]
    /\ queue' = Tail(queue)
    /\ done' = done \cup {[fam |-> "_build_transport_params", idx |-> <<>>]}
    /\ UNCHANGED <<k, fired, tiny, pyo, plain>>

(***************************************************************************)
(* Transport flows: TF3, TF4 (imports), TF5 (exports)                      *)
(***************************************************************************)
\* the routed (ll, tr) arriving at l
TF3_Inbound(l, p, y) ==
    {Transport(e[1], l, p, e[2], y) :
        e \in {x \in LOCATION \X TRANSPORTMODE : TransportRoute(x[1], l, p, x[2], y) = 1}}

TF3_Transport_3_rule(l, p, y) ==
    {Record("TF3", <<l, p, y>>,
            Terms(One, SeqOf(TF3_Inbound(l, p, y))) \o <<Term(N(-1), LocalUse(l, p, y))>>,
            "==", Zero)}

TF3_Transport_3_rule_pyomo(l, p, y) ==
    LET in == SeqOf(TF3_Inbound(l, p, y))
    IN  {Relation("TF3", <<l, p, y>>, SumExpr([j \in 1..Len(in) |-> V(in[j])]), "==",
                  V(LocalUse(l, p, y)))}

\* flows from a location outside r to a location inside r
TF4_InboundMutant(r, p, y) ==
    {Transport(e[1], e[2], p, e[3], y) :
        e \in {x \in LOCATION \X LOCATION \X TRANSPORTMODE :
                  /\ Geography(r, x[2]) = 1
                  /\ TransportRoute(x[1], x[2], p, x[3], y) = 1}}

TF4_Inbound(r, p, y) ==
    {Transport(e[1], e[2], p, e[3], y) :
        e \in {x \in LOCATION \X LOCATION \X TRANSPORTMODE :
                  /\ Geography(r, x[1]) = 0
                  /\ Geography(r, x[2]) = 1
                  /\ TransportRoute(x[1], x[2], p, x[3], y) = 1}}

TF4_Imports_rule(r, p, y) ==
    {Record("TF4", <<r, p, y>>,
            <<Term(One, Import(r, p, y))>> \o Terms(N(-1), SeqOf(TF4_Inbound(r, p, y))),
            "==", Zero)}

\* sum over l of Geography(r, l) * sum over routed (ll, tr) of
\* Transport(ll, l, p, tr, y) * (1 - Geography(r, ll))
TF4_Imports_rule_pyomo(r, p, y) ==
    LET from(l) ==
            LET E == SeqOf({x \in LOCATION \X TRANSPORTMODE :
                               TransportRoute(x[1], l, p, x[2], y) = 1})
            IN  SumExpr([j \in 1..Len(E) |->
                    Scale(N(1 - Geography(r, E[j][1])),
                          V(Transport(E[j][1], l, p, E[j][2], y)))])
        L == SeqOf(LOCATION)
    IN  {Relation("TF4", <<r, p, y>>, V(Import(r, p, y)), "==",
                  SumExpr([j \in 1..Len(L) |-> Scale(N(Geography(r, L[j])), from(L[j]))]))}

\* flows from a location inside r to a location outside r
TF5_Outbound(r, p, y) ==
    {Transport(e[1], e[2], p, e[3], y) :
        e \in {x \in LOCATION \X LOCATION \X TRANSPORTMODE :
                  /\ Geography(r, x[1]) = 1
                  /\ Geography(r, x[2]) = 0
                  /\ TransportRoute(x[1], x[2], p, x[3], y) = 1}}

TF5_Exports_rule(r, p, y) ==
    {Record("TF5", <<r, p, y>>,
            <<Term(One, Export(r, p, y))>> \o Terms(N(-1), SeqOf(TF5_Outbound(r, p, y))),
            "==", Zero)}

TF5_Exports_rule_pyomo(r, p, y) ==
    LET to(l) ==
            LET E == SeqOf({x \in LOCATION \X TRANSPORTMODE :
                               TransportRoute(l, x[1], p, x[2], y) = 1})
            IN  SumExpr([j \in 1..Len(E) |->
                    Scale(N(1 - Geography(r, E[j][1])),
                          V(Transport(l, E[j][1], p, E[j][2], y)))])
        L == SeqOf(LOCATION)
    IN  {Relation("TF5", <<r, p, y>>, V(Export(r, p, y)), "==",
                  SumExpr([j \in 1..Len(L) |-> Scale(N(Geography(r, L[j])), to(L[j]))]))}

TF3_Transport_3 ==
    /\ At("TF3")
    /\ tiny' = tiny \cup TF3_Transport_3_rule(Cur[1], Cur[2], Cur[3])
    /\ pyo' = pyo \cup TF3_Transport_3_rule_pyomo(Cur[1], Cur[2], Cur[3])
    /\ Advance
    /\ UNCHANGED <<plain, fired>>

TF4_Imports ==
    /\ At("TF4")
    /\ tiny' = tiny \cup TF4_Imports_rule(Cur[1], Cur[2], Cur[3])
    /\ pyo' = pyo \cup TF4_Imports_rule_pyomo(Cur[1], Cur[2], Cur[3])
    /\ Advance
    /\ UNCHANGED <<plain, fired>>

TF5_Exports ==
    /\ At("TF5")
    /\ tiny' = tiny \cup TF5_Exports_rule(Cur[1], Cur[2], Cur[3])
    /\ pyo' = pyo \cup TF5_Exports_rule_pyomo(Cur[1], Cur[2], Cur[3])
    /\ Advance
    /\ UNCHANGED <<plain, fired>>

(***************************************************************************)
(* Specification SpecBuild: two regions with a hub each, la1 in ra, lb1 in *)
(* rb, la2 and lb2 in any of the regions, with and without pipeline rows   *)
(* and with the hub option on and off; the links are built, then TF2 to    *)
(* TF5 are generated from them                                             *)
(***************************************************************************)
Pipelines ==
    {<<"la1", "lb1", "pa", "PIPELINE", 1>>, <<"la2", "TRANSPORT_HUB_rb", "pa", "PIPELINE", 1>>}

BuildInputs ==
    LET R == {"ra", "rb"}
        H == {TRANSPORT_HUB(r) : r \in R}
        Free == {"la2", "lb2"}
        L == {"la1", "lb1"} \cup Free \cup H
        base == [EmptyInput EXCEPT !.YEAR = SingleYear, !.REGION = R, !.LOCATION = L,
                                   !.PRODUCT = {"pa"},
                                   !.TRANSPORTMODE = {"ONSITE", "OTHER", "INTER_REG", "PIPELINE"},
                                   !.HubLocation = [l \in L |-> IF l \in H THEN 1 ELSE 0]]
        home(l) == IF l \in {"la1", "TRANSPORT_HUB_ra"} THEN "ra" ELSE "rb"
    IN  {[base EXCEPT !.hub = h,
                      !.Geography = [e \in R \X L |->
                                        IF e[2] \in Free THEN g[e]
                                        ELSE IF e[1] = home(e[2]) THEN 1 ELSE 0],
                      !.TransportRoute_pipeline = [e \in P |-> 1],
                      !.TransportCapacity_pipeline = [e \in P |-> N(MaxCap)]] :
            h \in BOOLEAN, g \in [R \X Free -> {0, 1}], P \in SUBSET Pipelines}

InitBuild == Start(BuildInputs, <<"_build_transport_params", "TF2", "TF3", "TF4", "TF5">>)
NextBuild ==
    \/ build_transport_params
    \/ TF2_Transport_2 \/ TF3_Transport_3
    \/ TF4_Imports \/ TF5_Exports
SpecBuild == InitBuild /\ [][NextBuild]_vars

\* the links have been written
Built == [fam |-> "_build_transport_params", idx |-> <<>>] \in done

\* the entries of the TransportRoute table
Entries == {e \in DOMAIN input.TransportRoute : input.TransportRoute[e] = 1}

SameRegion(l, ll) == \E r \in REGION : Geography(r, l) = 1 /\ Geography(r, ll) = 1

\* a regular node to itself, mode ONSITE
OnSiteEntry(e) == e[1] = e[2] /\ HubLocation(e[1]) = 0 /\ e[4] = "ONSITE"

\* a regular node and the hub of a region it belongs to, either way, mode OTHER
HubLinkEntry(e) ==
    /\ e[4] = "OTHER"
    /\ HubLocation(e[1]) + HubLocation(e[2]) = 1
    /\ SameRegion(e[1], e[2])

\* the hubs of two different regions, mode INTER_REG
InterRegEntry(e) ==
    /\ e[4] = "INTER_REG"
    /\ HubLocation(e[1]) = 1 /\ HubLocation(e[2]) = 1
    /\ ~SameRegion(e[1], e[2])

\* C16 (as stated): with the hub option on, every TransportRoute entry that
\* _build_transport_params returns is a self-loop of a regular node (ONSITE), a
\* link between a regular node and the hub of its own region (OTHER), or a link
\* between the hubs of two different regions (INTER_REG).
C16_OnlyHubTopology ==
    (Built /\ input.hub) =>
        \A e \in Entries : OnSiteEntry(e) \/ HubLinkEntry(e) \/ InterRegEntry(e)

\* C16 (amended): with the hub option on, every TransportRoute entry that
\* _build_transport_params returns is of one of the three kinds or is a row of
\* TransportRoute_pipeline.csv, which the function appends as it is.
C16_HubTopologyOrPipeline ==
    (Built /\ input.hub) =>
        \A e \in Entries :
            \/ OnSiteEntry(e) \/ HubLinkEntry(e) \/ InterRegEntry(e)
            \/ e \in DOMAIN input.TransportRoute_pipeline

\* the links are built with the hub option on for a location that belongs to both
\* regions, and an entry of each kind exists
C16_Witness ==
    /\ Built /\ input.hub
    /\ Geography("ra", "la2") = 1 /\ Geography("rb", "la2") = 1
    /\ \E e \in Entries : OnSiteEntry(e)
    /\ \E e \in Entries : HubLinkEntry(e) /\ e[1] = "la2" /\ e[2] = "TRANSPORT_HUB_rb"
    /\ \E e \in Entries : InterRegEntry(e)
    /\ \E e \in Entries : e \in DOMAIN input.TransportRoute_pipeline

\* two regions, each with two regular locations and its hub, one product, the
\* hub option on and no pipeline row.  (Where the product is produced and
\* where it is demanded is read by no rule of TF2 to TF5.)
TwoRegionScenario ==
    /\ input.hub
    /\ DOMAIN input.TransportRoute_pipeline = {}
    /\ Geography("ra", "la2") = 1 /\ Geography("rb", "la2") = 0
    /\ Geography("ra", "lb2") = 0 /\ Geography("rb", "lb2") = 1

TransportColumns(rec) == {x \in Columns(rec) : x[1] = "Transport"}

RECURSIVE LocalRatio(_, _, _, _, _, _, _)
LocalRatio(rs, table, l, t, x, m, y) ==
    IF rs = {} THEN 0
    ELSE LET r == CHOOSE q \in rs : TRUE
         IN  Get(table, <<r, t, x, m, y>>, 0) * Geography(r, l)
             + LocalRatio(rs \ {r}, table, l, t, x, m, y)

\* [m for m in MODE_OF_OPERATION if ModeForTechnology(t, m) == 1]
ModeOfOperationMutant(t) == MODE_OF_OPERATION

ModeOfOperation(t) == {m \in MODE_OF_OPERATION : ModeForTechnology(t, m) = 1}

\* the technologies of the kind of l
HubMatching(l) ==
    IF HubLocation(l) = 1 THEN {t \in TECHNOLOGY : HubTechnology(t) = 1}
    ELSE {t \in TECHNOLOGY : HubTechnology(t) = 0}

PB1_Production_1_rule(l, p, t, m, y) ==
    IF HubGuard(l, t) # {}
    THEN IF ModeForTechnology(t, m) = 1 /\ ProductFromTechnology(t, p) = 1
         THEN {Record("PB1", <<l, p, t, m, y>>,
                      <<Term(One, LocalProductionByMode(l, t, p, m, y)),
                        Term(N(-1 * LocalRatio(REGION, input.OutputActivityRatio, l, t, p, m, y)),
                             LocalActivityByMode(l, t, m, y))>>,
                      "==", Zero)}
         ELSE {}
    ELSE {}

PB1_Production_1_rule_pyomo(l, p, t, m, y) ==
    IF HubGuard(l, t) # {}
    THEN IF ModeForTechnology(t, m) = 1 /\ ProductFromTechnology(t, p) = 1
         THEN {Relation("PB1", <<l, p, t, m, y>>,
                        V(LocalProductionByMode(l, t, p, m, y)), "==",
                        Scale(N(LocalRatio(REGION, input.OutputActivityRatio, l, t, p, m, y)),
                              V(LocalActivityByMode(l, t, m, y))))}
         ELSE {}
    ELSE {}

PB2_Production_2_rule(l, p, t, y) ==
    IF HubGuard(l, t) # {}
    THEN IF ProductFromTechnology(t, p) = 1
         THEN {Record("PB2", <<l, p, t, y>>,
                      <<Term(One, LocalProductionByTechnology(l, t, p, y))>>
                      \o Terms(N(-1), SeqOf({LocalProductionByMode(l, t, p, m, y) :
                                                m \in ModeOfOperation(t)})),
                      "==", Zero)}
         ELSE {}
    ELSE {}

PB2_Production_2_rule_pyomo(l, p, t, y) ==
    LET ms == SeqOf({m \in MODE_OF_OPERATION : ModeForTechnology(t, m) = 1})
    IN  IF HubGuard(l, t) # {}
        THEN IF ProductFromTechnology(t, p) = 1
             THEN {Relation("PB2", <<l, p, t, y>>,
                            V(LocalProductionByTechnology(l, t, p, y)), "==",
                            SumExpr([j \in 1..Len(ms) |->
                                        V(LocalProductionByMode(l, t, p, ms[j], y))]))}
             ELSE {}
        ELSE {}

PB3_RelevantTechnology(l, p) == {t \in HubMatching(l) : ProductFromTechnology(t, p) = 1}

PB3_Production_3_rule(l, p, y) ==
    {Record("PB3", <<l, p, y>>,
            <<Term(One, LocalProduction(l, p, y))>>
            \o Terms(N(-1), SeqOf({LocalProductionByTechnology(l, t, p, y) :
                                      t \in PB3_RelevantTechnology(l, p)})),
            "==", Zero)}

PB3_Production_3_rule_pyomo(l, p, y) ==
    LET ts == SeqOf(PB3_RelevantTechnology(l, p))
    IN  {Relation("PB3", <<l, p, y>>, V(LocalProduction(l, p, y)), "==",
                  SumExpr([j \in 1..Len(ts) |-> V(LocalProductionByTechnology(l, ts[j], p, y))]))}

PB5_Use_1_rule(l, p, t, m, y) ==
    IF HubGuard(l, t) # {}
    THEN IF ModeForTechnology(t, m) = 1 /\ ProductToTechnology(t, p) = 1
         THEN {Record("PB5", <<l, p, t, m, y>>,
                      <<Term(One, LocalUseByMode(l, t, p, m, y)),
                        Term(N(-1 * LocalRatio(REGION, input.InputActivityRatio, l, t, p, m, y)),
                             LocalActivityByMode(l, t, m, y))>>,
                      "==", Zero)}
         ELSE {}
    ELSE {}

PB5_Use_1_rule_pyomo(l, p, t, m, y) ==
    IF HubGuard(l, t) # {}
    THEN IF ModeForTechnology(t, m) = 1 /\ ProductToTechnology(t, p) = 1
         THEN {Relation("PB5", <<l, p, t, m, y>>,
                        V(LocalUseByMode(l, t, p, m, y)), "==",
                        Scale(N(LocalRatio(REGION, input.InputActivityRatio, l, t, p, m, y)),
                              V(LocalActivityByMode(l, t, m, y))))}
         ELSE {}
    ELSE {}

PB6_Use_2_rule(l, p, t, y) ==
    IF HubGuard(l, t) # {}
    THEN IF ProductToTechnology(t, p) = 1
         THEN {Record("PB6", <<l, p, t, y>>,
                      <<Term(One, LocalUseByTechnology(l, t, p, y))>>
                      \o Terms(N(-1), SeqOf({LocalUseByMode(l, t, p, m, y) :
                                                m \in ModeOfOperation(t)})),
                      "==", Zero)}
         ELSE {}
    ELSE {}

PB6_Use_2_rule_pyomo(l, p, t, y) ==
    LET ms == SeqOf({m \in MODE_OF_OPERATION : ModeForTechnology(t, m) = 1})
    IN  IF HubGuard(l, t) # {}
        THEN IF ProductToTechnology(t, p) = 1
             THEN {Relation("PB6", <<l, p, t, y>>,
                            V(LocalUseByTechnology(l, t, p, y)), "==",
                            SumExpr([j \in 1..Len(ms) |-> V(LocalUseByMode(l, t, p, ms[j], y))]))}
             ELSE {}
        ELSE {}

PB7_RelevantTechnology(l, p) == {t \in HubMatching(l) : ProductToTechnology(t, p) = 1}

PB7_Use_3_rule(l, p, y) ==
    {Record("PB7", <<l, p, y>>,
            <<Term(One, LocalUse(l, p, y))>>
            \o Terms(N(-1), SeqOf({LocalUseByTechnology(l, t, p, y) :
                                      t \in PB7_RelevantTechnology(l, p)})),
            "==", Zero)}

PB7_Use_3_rule_pyomo(l, p, y) ==
    LET ts == SeqOf(PB7_RelevantTechnology(l, p))
    IN  {Relation("PB7", <<l, p, y>>, V(LocalUse(l, p, y)), "==",
                  SumExpr([j \in 1..Len(ts) |-> V(LocalUseByTechnology(l, ts[j], p, y))]))}

E1_LocalEmissionProductionByMode_rule(l, t, e, m, y) ==
    LET ratio == LocalRatio(REGION, input.EmissionActivityRatio, l, t, e, m, y)
    IN  IF HubGuard(l, t) # {}
        THEN IF ModeForTechnology(t, m) = 1
             THEN IF ratio # 0
                  THEN {Record("E1", <<l, t, e, m, y>>,
                               <<Term(One, LocalTechnologyEmissionByMode(l, t, e, m, y)),
                                 Term(N(-1 * ratio), LocalActivityByMode(l, t, m, y))>>,
                               "==", Zero)}
                  ELSE {Record("E1", <<l, t, e, m, y>>,
                               <<Term(One, LocalTechnologyEmissionByMode(l, t, e, m, y))>>,
                               "==", Zero)}
             ELSE {}
        ELSE {}

E1_LocalEmissionProductionByMode_rule_pyomo(l, t, e, m, y) ==
    LET ratio == LocalRatio(REGION, input.EmissionActivityRatio, l, t, e, m, y)
    IN  IF HubGuard(l, t) # {}
        THEN IF ModeForTechnology(t, m) = 1
             THEN IF ratio # 0
                  THEN {Relation("E1", <<l, t, e, m, y>>,
                                 V(LocalTechnologyEmissionByMode(l, t, e, m, y)), "==",
                                 Scale(N(ratio), V(LocalActivityByMode(l, t, m, y))))}
                  ELSE {Relation("E1", <<l, t, e, m, y>>,
                                 V(LocalTechnologyEmissionByMode(l, t, e, m, y)), "==", K(Zero))}
             ELSE {}
        ELSE {}

PB1_Production_1 ==
    /\ At("PB1")
    /\ tiny' = tiny \cup PB1_Production_1_rule(Cur[1], Cur[2], Cur[3], Cur[4], Cur[5])
    /\ pyo' = pyo \cup PB1_Production_1_rule_pyomo(Cur[1], Cur[2], Cur[3], Cur[4], Cur[5])
    /\ Advance
    /\ UNCHANGED <<plain, fired>>

PB2_Production_2 ==
    /\ At("PB2")
    /\ tiny' = tiny \cup PB2_Production_2_rule(Cur[1], Cur[2], Cur[3], Cur[4])
    /\ pyo' = pyo \cup PB2_Production_2_rule_pyomo(Cur[1], Cur[2], Cur[3], Cur[4])
    /\ Advance
    /\ UNCHANGED <<plain, fired>>

PB3_Production_3 ==
    /\ At("PB3")
    /\ tiny' = tiny \cup PB3_Production_3_rule(Cur[1], Cur[2], Cur[3])
    /\ pyo' = pyo \cup PB3_Production_3_rule_pyomo(Cur[1], Cur[2], Cur[3])
    /\ Advance
    /\ UNCHANGED <<plain, fired>>

PB5_Use_1 ==
    /\ At("PB5")
    /\ tiny' = tiny \cup PB5_Use_1_rule(Cur[1], Cur[2], Cur[3], Cur[4], Cur[5])
    /\ pyo' = pyo \cup PB5_Use_1_rule_pyomo(Cur[1], Cur[2], Cur[3], Cur[4], Cur[5])
    /\ Advance
    /\ UNCHANGED <<plain, fired>>

PB6_Use_2 ==
    /\ At("PB6")
    /\ tiny' = tiny \cup PB6_Use_2_rule(Cur[1], Cur[2], Cur[3], Cur[4])
    /\ pyo' = pyo \cup PB6_Use_2_rule_pyomo(Cur[1], Cur[2], Cur[3], Cur[4])
    /\ Advance
    /\ UNCHANGED <<plain, fired>>

PB7_Use_3 ==
    /\ At("PB7")
    /\ tiny' = tiny \cup PB7_Use_3_rule(Cur[1], Cur[2], Cur[3])
    /\ pyo' = pyo \cup PB7_Use_3_rule_pyomo(Cur[1], Cur[2], Cur[3])
    /\ Advance
    /\ UNCHANGED <<plain, fired>>

E1_LocalEmissionProductionByMode ==
    /\ At("E1")
    /\ tiny' = tiny \cup E1_LocalEmissionProductionByMode_rule(Cur[1], Cur[2], Cur[3], Cur[4], Cur[5])
    /\ pyo' = pyo
              \cup E1_LocalEmissionProductionByMode_rule_pyomo(Cur[1], Cur[2], Cur[3], Cur[4], Cur[5])
    /\ Advance
    /\ UNCHANGED <<plain, fired>>

(***************************************************************************)
(* Specification SpecFlags: one regular location, two technologies (tb a   *)
(* hub technology or not), two modes, one product, one emission, on every  *)
(* assignment of the categorical flags                                     *)
(***************************************************************************)
FlagInputs ==
    LET T == {"ta", "tb"}  M == {"ma", "mb"}  P == {"pa"}
        base == [EmptyInput EXCEPT !.YEAR = SingleYear, !.REGION = {"ra"}, !.LOCATION = {"la"},
                                   !.TECHNOLOGY = T, !.MODE_OF_OPERATION = M, !.PRODUCT = P,
                                   !.EMISSION = {"ea"},
                                   !.Geography = [e \in {<<"ra", "la">>} |-> 1],
                                   !.OutputActivityRatio =
                                       [e \in {"ra"} \X T \X P \X M \X SingleYear |-> 1],
                                   !.InputActivityRatio =
                                       [e \in {"ra"} \X T \X P \X M \X SingleYear |-> 1]]
    IN  {[base EXCEPT !.ModeForTechnology = mft, !.ProductFromTechnology = pft,
                      !.ProductToTechnology = ptt,
                      !.HubTechnology = [t \in {"tb"} |-> ht],
                      !.EmissionActivityRatio = [e \in {<<"ra", "ta", "ea", "ma", 1>>} |-> ear]] :
            mft \in [T \X M -> {0, 1}], pft \in [T \X P -> {0, 1}],
            ptt \in [T \X P -> {0, 1}], ht \in {0, 1}, ear \in {0, 1}}

InitFlags == Start(FlagInputs, <<"PB1", "PB2", "PB3", "PB5", "PB6", "PB7", "E1">>)
NextFlags ==
    \/ PB1_Production_1 \/ PB2_Production_2 \/ PB3_Production_3
    \/ PB5_Use_1 \/ PB6_Use_2 \/ PB7_Use_3
    \/ E1_LocalEmissionProductionByMode
SpecFlags == InitFlags /\ [][NextFlags]_vars

\* the columns of a record that belong to one variable
ColumnsOf(rec, var) == {x \in Columns(rec) : x[1] = var}

\* C18: no record is emitted for a tuple whose categorical flag is false.  PB1 and
\* PB5 records exist only for (t, m, p) with ModeForTechnology(t, m) = 1 and
\* ProductFromTechnology(t, p) = 1 (PB1) or ProductToTechnology(t, p) = 1 (PB5);
\* PB2 and PB6 records only for flagged products; E1 records only for valid
\* modes; and the inner sums over modes (PB2, PB6) and over technologies (PB3,
\* PB7) include only flagged members.  Record indices are (l, p, t, m, y) for
\* PB1 and PB5, (l, p, t, y) for PB2 and PB6, (l, t, e, m, y) for E1.
C18_NoRecordForUnflaggedTuple ==
    \A rec \in tiny \cup pyo :
        LET i == rec.idx
        IN  /\ rec.fam = "PB1" =>
                  ModeForTechnology(i[3], i[4]) = 1 /\ ProductFromTechnology(i[3], i[2]) = 1
            /\ rec.fam = "PB5" =>
                  ModeForTechnology(i[3], i[4]) = 1 /\ ProductToTechnology(i[3], i[2]) = 1
            /\ rec.fam = "PB2" =>
                  /\ ProductFromTechnology(i[3], i[2]) = 1
                  /\ \A x \in ColumnsOf(rec, "LocalProductionByMode") :
                        ModeForTechnology(x[3], x[5]) = 1
            /\ rec.fam = "PB6" =>
                  /\ ProductToTechnology(i[3], i[2]) = 1
                  /\ \A x \in ColumnsOf(rec, "LocalUseByMode") :
                        ModeForTechnology(x[3], x[5]) = 1
            /\ rec.fam = "E1" => ModeForTechnology(i[2], i[4]) = 1
            /\ rec.fam = "PB3" =>
                  \A x \in ColumnsOf(rec, "LocalProductionByTechnology") :
                      ProductFromTechnology(x[3], x[4]) = 1
            /\ rec.fam = "PB7" =>
                  \A x \in ColumnsOf(rec, "LocalUseByTechnology") :
                      ProductToTechnology(x[3], x[4]) = 1

\* every family has been generated for a technology ta with one valid and one
\* invalid mode that makes but does not use the product: PB1, PB2 and E1 emitted
\* for the valid mode only, PB5 and PB6 emitted nothing for ta
C18_Witness ==
    /\ queue = <<>>
    /\ HubTechnology("ta") = 0
    /\ ModeForTechnology("ta", "ma") = 1 /\ ModeForTechnology("ta", "mb") = 0
    /\ ProductFromTechnology("ta", "pa") = 1 /\ ProductToTechnology("ta", "pa") = 0
    /\ \A sys \in {tiny, pyo} :
          /\ RowsOf(sys, "PB1", <<"la", "pa", "ta", "ma", 1>>) # {}
          /\ RowsOf(sys, "PB1", <<"la", "pa", "ta", "mb", 1>>) = {}
          /\ ColumnsOf(TheRow(sys, "PB2", <<"la", "pa", "ta", 1>>), "LocalProductionByMode")
                = {LocalProductionByMode("la", "ta", "pa", "ma", 1)}
          /\ RowsOf(sys, "E1", <<"la", "ta", "ea", "ma", 1>>) # {}
          /\ RowsOf(sys, "E1", <<"la", "ta", "ea", "mb", 1>>) = {}
          /\ RowsOf(sys, "PB5", <<"la", "pa", "ta", "ma", 1>>) = {}
          /\ RowsOf(sys, "PB6", <<"la", "pa", "ta", 1>>) = {}

(***************************************************************************)
(* The objective, and TDC2, which defines its columns                      *)
(***************************************************************************)
ObjectiveFunction_ruleMutant ==
    {Record("OBJ", <<>>,
            Terms(N(2), SeqOf({ModelPeriodCostByRegion(r) : r \in REGION})), "min", Zero)}

\* obj = [(1, [ModelPeriodCostByRegion(r) for r in REGION])]
ObjectiveFunction_rule ==
    {Record("OBJ", <<>>,
            Terms(One, SeqOf({ModelPeriodCostByRegion(r) : r \in REGION})), "min", Zero)}

\* sum(ModelPeriodCostByRegion[r] for r in REGION)
ObjectiveFunction_rule_pyomo ==
    LET rs == SeqOf(REGION)
        obj == SumExpr([j \in 1..Len(rs) |-> V(ModelPeriodCostByRegion(rs[j]))])
    IN  {Record("OBJ", <<>>, obj.t, "min", obj.c)}

TDC2_ModelPeriodCostByRegion_rule(r) ==
    {Record("TDC2", <<r>>,
            <<Term(One, ModelPeriodCostByRegion(r))>>
            \o Terms(N(-1), SeqOf({TotalDiscountedCost(r, y) : y \in YEAR})),
            "==", Zero)}

TDC2_ModelPeriodCostByRegion_rule_pyomo(r) ==
    LET ys == SeqOf(YEAR)
    IN  {Relation("TDC2", <<r>>, V(ModelPeriodCostByRegion(r)), "==",
                  SumExpr([j \in 1..Len(ys) |-> V(TotalDiscountedCost(r, ys[j]))]))}

OBJ ==
    /\ At("OBJ")
    /\ tiny' = tiny \cup ObjectiveFunction_rule
    /\ pyo' = pyo \cup ObjectiveFunction_rule_pyomo
    /\ Advance
    /\ UNCHANGED <<plain, fired>>

TDC2_ModelPeriodCostByRegion ==
    /\ At("TDC2")
    /\ tiny' = tiny \cup TDC2_ModelPeriodCostByRegion_rule(Cur[1])
    /\ pyo' = pyo \cup TDC2_ModelPeriodCostByRegion_rule_pyomo(Cur[1])
    /\ Advance
    /\ UNCHANGED <<plain, fired>>

(***************************************************************************)
(* Specification SpecObjective: the objective and TDC2 on every non-empty  *)
(* set of up to four regions and every horizon up to MaxYear               *)
(***************************************************************************)
ObjectiveInputs ==
    {[EmptyInput EXCEPT !.REGION = R, !.YEAR = 1..n] :
        R \in SUBSET {"ra", "rb", "rc", "rd"} \ {{}}, n \in 1..MaxYear}

InitObjective == Start(ObjectiveInputs, <<"OBJ", "TDC2">>)
NextObjective == OBJ \/ TDC2_ModelPeriodCostByRegion
SpecObjective == InitObjective /\ [][NextObjective]_vars

\* C19: the objective is the sum over all regions of ModelPeriodCostByRegion(r),
\* each with coefficient 1, with no other term and no constant, in both backends.
C19_ObjectiveIsSumOfRegionCosts ==
    \A c \in done : c.fam = "OBJ" =>
        \A sys \in {tiny, pyo} :
            /\ Cardinality(RowsOf(sys, "OBJ", <<>>)) = 1
            /\ \A rec \in RowsOf(sys, "OBJ", <<>>) :
                  /\ rec.lhs = {[x |-> <<"ModelPeriodCostByRegion", r>>, c |-> One] :
                                   r \in input.REGION}
                  /\ rec.rhs = Zero
                  /\ rec.sense = "min"

\* the objective has been built for more than one region, and TDC2 has defined
\* each of its columns
C19_Witness ==
    /\ queue = <<>>
    /\ Cardinality(REGION) > 1
    /\ \A sys \in {tiny, pyo} :
          /\ RowsOf(sys, "OBJ", <<>>) # {}
          /\ \A r \in REGION : Coef(TheRow(sys, "TDC2", <<r>>), ModelPeriodCostByRegion(r)) = One

(***************************************************************************)
(* run.py: the input files are checked for consistency                     *)
(* (helpers/input_data_check.check_input_data), then loaded, then the      *)
(* model is built.  The parameter file followed here is                    *)
(* TotalAnnualMaxCapacity.csv; input.duplicated says that it holds a row   *)
(* twice, input.duplicated_subset that it holds two rows with the same     *)
(* index and different values                                              *)
(***************************************************************************)
\* the index columns of the file: df.columns[:-1]
df_cols == <<"REGION", "TECHNOLOGY", "YEAR">>

\* sets[col][col]
sets(col) ==
    CASE col = "REGION" -> REGION
      [] col = "TECHNOLOGY" -> TECHNOLOGY
      [] col = "YEAR" -> YEAR

\* df[col].isin(sets[col][col]).all()
AllIn(j) == \A row \in DOMAIN input.TotalAnnualMaxCapacity : row[j] \in sets(df_cols[j])

\* the if / elif chain over the index columns from column j on; dup says whether
\* df still holds a row twice.  What it yields is printed (and, for a
\* discrepancy, written to a log file); nothing is raised
RECURSIVE check_columns(_, _)
check_columns(j, dup) ==
    IF j > Len(df_cols) THEN {}
    ELSE IF AllIn(j) THEN check_columns(j + 1, dup)
    ELSE IF dup THEN {"Duplicate rows have been removed"} \cup check_columns(j + 1, FALSE)
    ELSE IF input.duplicated_subset
    THEN {"Duplicate rows NOT REMOVED"} \cup check_columns(j + 1, dup)
    ELSE {"There is a discrepancy"} \cup check_columns(j + 1, dup)

check_input_data ==
    /\ At("check_input_data")
    /\ fired' = fired \cup Took(check_columns(1, input.duplicated))
    /\ Advance
    /\ UNCHANGED <<tiny, pyo, plain>>

\* the rows of the file that reference a non-member of an index set
NonMembers ==
    {row \in DOMAIN input.TotalAnnualMaxCapacity :
        \E j \in 1..Len(df_cols) : row[j] \notin sets(df_cols[j])}

\* the tables are loaded by the modelling library (Params of tinyomo, the
\* DataPortal of pyomo), which is not part of the repository: a row that
\* references a non-member is either taken into the table or refused
load_Outcomes == IF NonMembers # {} THEN {"loaded", "refused"} ELSE {"loaded"}

load_data ==
    /\ At("load_data")
    /\ \E out \in load_Outcomes :
          IF out = "refused" THEN Raise(out)
          ELSE /\ Advance
               /\ UNCHANGED <<fired, tiny, pyo, plain>>

(***************************************************************************)
(* Specification SpecRun: check, load and build TCC1 on every table of     *)
(* TotalAnnualMaxCapacity with member and non-member rows                  *)
(***************************************************************************)
RunInputs ==
    LET base == [EmptyInput EXCEPT !.REGION = {"ra"}, !.TECHNOLOGY = {"ta"},
                                   !.YEAR = 1..MaxYear]
        Rows == {<<"ra", "ta", 1>>, <<"rx", "ta", 1>>, <<"ra", "tx", 1>>, <<"ra", "ta", 0>>}
    IN  UNION {
          {[base EXCEPT !.TotalAnnualMaxCapacity = [row \in F |-> N(MaxLimit)],
                        !.duplicated = d, !.duplicated_subset = ds] :
              d \in {x \in BOOLEAN : x => F # {}}, ds \in {x \in BOOLEAN : x => F # {}}} :
          F \in SUBSET Rows}

InitRun == Start(RunInputs, <<"check_input_data", "load_data", "TCC1">>)
NextRun == check_input_data \/ load_data \/ TCC1_TotalAnnualMaxCapacityConstraint
SpecRun == InitRun /\ [][NextRun]_vars

\* the run ended at the load
Refused == \E f \in fired : f.fam = "load_data" /\ f.br = "refused"

\* C20: if a parameter file holds a tuple that references a non-member of its
\* index set, the run aborts at load time: the check and the load do not let it
\* pass, and no record of the model is built.
C20_NonMemberAbortsLoad ==
    NonMembers # {} =>
        /\ tiny \cup pyo = {}
        /\ \A c \in done : c.fam = "load_data" => Refused
        /\ \A c \in done : c.fam \in {"check_input_data", "load_data"}

(***************************************************************************)
(* run.py, the branch that builds with tinyomo and solves with Gurobi.     *)
(* queue holds the statement to execute next, k counts the statements      *)
(* executed, done records which statement ran when, fired the files        *)
(* written, input.status the status of the solver model.  The solver is    *)
(* external: optimize() may end with any status                            *)
(***************************************************************************)
Statuses == {"OPTIMAL", "INFEASIBLE", "INF_OR_UNBD", "UNBOUNDED", "TIME_LIMIT"}

\* the statement has run: it is logged and control passes to next
Goto(next, status) ==
    /\ done' = done \cup {[fam |-> Head(queue), idx |-> <<k>>]}
    /\ k' = k + 1
    /\ queue' = IF next = "end" THEN <<>> ELSE <<next>>
    /\ input' = [input EXCEPT !.status = status]
    /\ UNCHANGED <<tiny, pyo, plain>>

\* the files a statement writes
Writes(files) == fired' = fired \cup {[fam |-> Head(queue), idx |-> <<k>>, br |-> f] : f \in files}

\* if model.status == GRB.OPTIMAL: ... elif model.status != GRB.OPTIMAL: ...
AfterSolveMutant(status) == IF status # "INFEASIBLE" THEN "write_solution" ELSE "computeIIS"

AfterSolve(status) == IF status = "OPTIMAL" THEN "write_solution" ELSE "computeIIS"

\* the two tests on the status of the relaxed model
AfterRelaxedMutant(status) ==
    IF status \in {"INF_OR_UNBD", "INFEASIBLE", "UNBOUNDED"} THEN "sys.exit"
    ELSE IF status # "OPTIMAL" THEN "build_lp"
    ELSE "slacks"

AfterRelaxed(status) ==
    IF status \in {"INF_OR_UNBD", "INFEASIBLE", "UNBOUNDED"} THEN "sys.exit"
    ELSE IF status # "OPTIMAL" THEN "sys.exit"
    ELSE "slacks"

\* m = itom_hub_tinyomo(InputPath=input_path, OutputPath=output_path, config=config)
itom_hub_tinyomo ==
    /\ At("itom_hub_tinyomo")
    /\ Goto("build_lp", input.status)
    /\ UNCHANGED fired

\* m.build_lp(), then "if config['framework']['like_pyomo']"
build_lp ==
    /\ At("build_lp")
    /\ Writes({"problem.lp"})
    /\ Goto(IF input.like_pyomo THEN "build_lp_likepyomo" ELSE "gp.read", input.status)

build_lp_likepyomo ==
    /\ At("build_lp_likepyomo")
    /\ Writes({"problem_likepyomo.lp"})
    /\ Goto("gp.read", input.status)

\* model = gp.read(...), the parameters, then the first model.optimize()
gp_read ==
    /\ At("gp.read")
    /\ Goto("optimize", "LOADED")
    /\ UNCHANGED fired

optimize ==
    /\ At("optimize")
    /\ \E status \in Statuses :
          Goto(IF status = "INF_OR_UNBD" THEN "presolve_off" ELSE AfterSolve(status), status)
    /\ UNCHANGED fired

\* model.setParam(GRB.Param.Presolve, 0); model.optimize()
presolve_off ==
    /\ At("presolve_off")
    /\ \E status \in Statuses : Goto(AfterSolve(status), status)
    /\ UNCHANGED fired

\* model.write(model.sol), the variables csv, the shadow prices if configured
write_solution ==
    /\ At("write_solution")
    /\ Writes({"model.sol", "variables.csv"}
              \cup (IF input.shadow_prices THEN {"raw_shadow_prices.csv"} ELSE {}))
    /\ Goto("end", input.status)

\* model.computeIIS(); model.write(model.ilp)
computeIIS ==
    /\ At("computeIIS")
    /\ Writes({"model.ilp"})
    /\ Goto("feasRelaxS", input.status)

\* model.feasRelaxS(0, False, True, True); model.optimize(); the tests on the status
feasRelaxS ==
    /\ At("feasRelaxS")
    /\ \E status \in Statuses : Goto(AfterRelaxed(status), status)
    /\ UNCHANGED fired

\* sys.exit(1)
sys_exit ==
    /\ At("sys.exit")
    /\ Goto("end", input.status)
    /\ UNCHANGED fired

\* the slack values are printed and the run ends
slacks ==
    /\ At("slacks")
    /\ Goto("end", input.status)
    /\ UNCHANGED fired

(***************************************************************************)
(* Specification SpecSolve: one run for every setting of like_pyomo and    *)
(* shadow_prices and every sequence of solver statuses                     *)
(***************************************************************************)
SolveInputs ==
    {[EmptyInput EXCEPT !.like_pyomo = lp, !.shadow_prices = sp] :
        lp \in BOOLEAN, sp \in BOOLEAN}

InitSolve == Start(SolveInputs, <<"itom_hub_tinyomo">>)
NextSolve ==
    \/ itom_hub_tinyomo \/ build_lp \/ build_lp_likepyomo \/ gp_read
    \/ optimize \/ presolve_off \/ write_solution
    \/ computeIIS \/ feasRelaxS \/ sys_exit \/ slacks
SpecSolve == InitSolve /\ [][NextSolve]_vars

\* the statements that assemble the linear system, and those that run the solver
AssemblySteps == {"itom_hub_tinyomo", "build_lp", "build_lp_likepyomo"}
SolverSteps == {"optimize", "presolve_off", "feasRelaxS"}

\* the times at which a statement ran
Ran(step) == {c.idx[1] : c \in {d \in done : d.fam = step}}

\* C21: the assembler never retries.  Within one run each assembly step (model
\* construction, build_lp, build_lp_likepyomo) is executed at most once, and
\* none is executed after the solver has been invoked, whatever the status; the
\* re-solves act on the solver model already read.
C21_AssembledOnceBeforeSolve ==
    /\ \A a \in AssemblySteps : Cardinality(Ran(a)) <= 1
    /\ Cardinality(Ran("gp.read")) <= 1
    /\ \A a \in AssemblySteps \cup {"gp.read"} : \A b \in SolverSteps :
          \A i \in Ran(a) : \A j \in Ran(b) : i < j

\* a run in which the solver was invoked three times (INF_OR_UNBD, presolve off,
\* relaxed) has ended
C21_Witness ==
    /\ queue = <<>>
    /\ \A b \in SolverSteps : Ran(b) # {}
    /\ \A a \in AssemblySteps : Ran(a) # {}

\* the files written so far
Written == {f.br : f \in {g \in fired : g.fam \in {"write_solution", "computeIIS"}}}
SolutionFiles == {"model.sol", "variables.csv", "raw_shadow_prices.csv"}

NoInbound == {c \in done : c.fam = "TF3" /\ TF3_Inbound(c.idx[1], c.idx[2], c.idx[3]) = {}}

\* C22: if no transport link at all arrives at destination l for product p in
\* year y, TF3 for (l,p,y) is skipped: no record is emitted that forces
\* LocalUse(l,p,y) to 0.
C22_NoInboundLinkSkipsTF3 ==
    \A c \in NoInbound : RowsOf(tiny, "TF3", c.idx) = {} /\ RowsOf(pyo, "TF3", c.idx) = {}

(***************************************************************************)
(* SV1 of the plain variant against SV1 of the hub variants                *)
(***************************************************************************)
\* the straight-line record with the given horizon-end factor
SV1_StraightRecord(r, t, y, factor) ==
    Relation("SV1", <<r, t, y>>, V(SalvageValue(r, t, y)), "==",
             Scale(factor, Scale(N(CapitalCost(r, t, y)), V(NewCapacity(r, t, y)))))

\* the indices for which both the plain and the hub rule have returned
SV1_Both == {c.idx : c \in {d \in done : d.fam = "SV1_plain"
                                        /\ RowsOf(plain, "SV1", d.idx) # {}
                                        /\ RowsOf(tiny, "SV1", d.idx) # {}
                                        /\ RowsOf(pyo, "SV1", d.idx) # {}}}

\* the record of a hub system differs from the plain record only in the
\* horizon-end offset of the straight-line branch
SV1_OnlyOffsetDiffers(sys, i) ==
    IF "straight" \in SV1_Case(i[1], i[2], i[3])
    THEN /\ TheRow(plain, "SV1", i)
               = SV1_StraightRecord(i[1], i[2], i[3], SV1_StraightFactor_plain(i[1], i[2], i[3]))
         /\ TheRow(sys, "SV1", i)
               = SV1_StraightRecord(i[1], i[2], i[3], SV1_StraightFactor(i[1], i[2], i[3]))
    ELSE TheRow(sys, "SV1", i) = TheRow(plain, "SV1", i)

\* C23: the salvage rule of the plain variant and that of the hub variants
\* (itom_hub.py, itom_hub_tinyomo.py) differ only in the horizon-end offset of
\* the straight-line branch; the branch conditions, the declining-balance branch
\* and the zero branch are identical for every (region, technology, year).
C23_SalvageDiffersOnlyInStraightOffset ==
    \A i \in SV1_Both : SV1_OnlyOffsetDiffers(tiny, i) /\ SV1_OnlyOffsetDiffers(pyo, i)

(***************************************************************************)
(* Retrofit: R3 of the hub variants (itom_hub_retrofit_tinyomo,            *)
(* abstract_itom_hub_retrofit) and of the plain variant                    *)
(* (abstract_itom_retrofit)                                                *)
(***************************************************************************)
RetrofitTechnology(t) == Get(input.RetrofitTechnology, t, 0)
MatchTechnologyRetrofit(t, tt) == Get(input.MatchTechnologyRetrofit, <<t, tt>>, 0)
PotentialRetrofitFromNew(l, t, y) == <<"PotentialRetrofitFromNew", l, t, y>>

\* [tech for tech in TECHNOLOGY if MatchTechnologyRetrofit(tech, t) == 1]
R3_RelevantTechnology(t) == {tech \in TECHNOLOGY : MatchTechnologyRetrofit(tech, t) = 1}

\* sum(MatchTechnologyRetrofit(tt, tech) for tt in RelevantTechnology)
RECURSIVE R3_Matches(_, _)
R3_Matches(rel, tech) ==
    IF rel = {} THEN 0
    ELSE LET tt == CHOOSE x \in rel : TRUE
         IN  MatchTechnologyRetrofit(tt, tech) + R3_Matches(rel \ {tt}, tech)

\* the list OtherRetrofitTechnology before t is removed from it
R3_OtherRetrofitTechnology(t) ==
    {tech \in TECHNOLOGY : RetrofitTechnology(tech) = 1
                           /\ R3_Matches(R3_RelevantTechnology(t), tech) >= 1}

\* if (HubLocation(l) == 1) or (RetrofitTechnology(t) == 0): return None
R3_Skip(l, t) == HubLocation(l) = 1 \/ RetrofitTechnology(t) = 0

\* the plain variant: if RetrofitTechnology[t] == 1: ... else: Constraint.Skip
R3_Skip_plain(t) == RetrofitTechnology(t) # 1

\* OtherRetrofitTechnology.remove(t) raises ValueError when t is not in the list
R3_Remove(skipped, t, y) ==
    IF ~skipped /\ y # MinOf(YEAR) /\ t \notin R3_OtherRetrofitTechnology(t)
    THEN "ValueError" ELSE "removed"

\* -1 * (1 + 0.1)
R3_Margin == Norm(0, -11, 10)

R3_RetrofitCapacityConstraint_rule(l, t, y) ==
    IF R3_Skip(l, t) THEN {}
    ELSE IF y = MinOf(YEAR)
    THEN {Record("R3", <<l, t, y>>, <<Term(One, LocalNewCapacity(l, t, y))>>, "==", Zero)}
    ELSE LET rel == SeqOf(R3_RelevantTechnology(t))
             other == SeqOf(R3_OtherRetrofitTechnology(t) \ {t})
         IN  {Record("R3", <<l, t, y>>,
                     <<Term(One, LocalNewCapacity(l, t, y))>>
                     \o [j \in 1..Len(other) |-> Term(One, LocalNewCapacity(l, other[j], y))]
                     \o [j \in 1..Len(rel) |->
                            Term(R3_Margin, PotentialRetrofitFromResidual(l, rel[j], y))]
                     \o [j \in 1..Len(rel) |->
                            Term(R3_Margin, PotentialRetrofitFromNew(l, rel[j], y))],
                     "<=", Zero)}

\* LocalNewCapacity + sum(LocalNewCapacity other) <= (1 + 0.1) * sum(residual + new)
R3_Relation(l, t, y) ==
    LET rel == SeqOf(R3_RelevantTechnology(t))
        other == SeqOf(R3_OtherRetrofitTechnology(t) \ {t})
    IN  Relation("R3", <<l, t, y>>,
                 Plus(V(LocalNewCapacity(l, t, y)),
                      SumExpr([j \in 1..Len(other) |-> V(LocalNewCapacity(l, other[j], y))])),
                 "<=",
                 Scale(Neg(R3_Margin),
                       SumExpr([j \in 1..Len(rel) |->
                                   Plus(V(PotentialRetrofitFromResidual(l, rel[j], y)),
                                        V(PotentialRetrofitFromNew(l, rel[j], y)))])))

R3_RetrofitCapacityConstraint_rule_pyomo(l, t, y) ==
    IF R3_Skip(l, t) THEN {}
    ELSE IF y = MinOf(YEAR)
    THEN {Relation("R3", <<l, t, y>>, V(LocalNewCapacity(l, t, y)), "==", K(Zero))}
    ELSE {R3_Relation(l, t, y)}

R3_RetrofitCapacityConstraint_rule_plain(l, t, y) ==
    IF R3_Skip_plain(t) THEN {}
    ELSE IF y = MinOf(YEAR)
    THEN {Relation("R3", <<l, t, y>>, V(LocalNewCapacity(l, t, y)), "==", K(Zero))}
    ELSE {R3_Relation(l, t, y)}

R3_RetrofitCapacityConstraint ==
    /\ At("R3")
    /\ IF R3_Remove(R3_Skip(Cur[1], Cur[2]), Cur[2], Cur[3]) = "ValueError"
       THEN Raise("ValueError")
       ELSE /\ tiny' = tiny \cup R3_RetrofitCapacityConstraint_rule(Cur[1], Cur[2], Cur[3])
            /\ pyo' = pyo \cup R3_RetrofitCapacityConstraint_rule_pyomo(Cur[1], Cur[2], Cur[3])
            /\ Advance
            /\ UNCHANGED <<fired, plain>>

R3_RetrofitCapacityConstraint_plain ==
    /\ At("R3_plain")
    /\ IF R3_Remove(R3_Skip_plain(Cur[2]), Cur[2], Cur[3]) = "ValueError"
       THEN Raise("ValueError")
       ELSE /\ plain' = plain \cup
                        R3_RetrofitCapacityConstraint_rule_plain(Cur[1], Cur[2], Cur[3])
            /\ Advance
            /\ UNCHANGED <<fired, tiny, pyo>>

(***************************************************************************)
(* Specification SpecRetrofit: R3 on a regular and a hub location, three   *)
(* technologies and two years, for every assignment of RetrofitTechnology  *)
(* and MatchTechnologyRetrofit and either hub flag of the first technology *)
(***************************************************************************)
RetrofitInputs ==
    LET base == [EmptyInput EXCEPT !.YEAR = 1..MaxYear, !.REGION = {"ra"},
                                   !.LOCATION = {"la", "lh"},
                                   !.TECHNOLOGY = {"ta", "tb", "tc"},
                                   !.HubLocation = [l \in {"la", "lh"} |->
                                                       IF l = "lh" THEN 1 ELSE 0],
                                   !.TechnologyToRetrofit = [t \in {"tc"} |-> 1]]
    IN  {[base EXCEPT !.RetrofitTechnology = rt, !.MatchTechnologyRetrofit = mt,
                      !.HubTechnology = [t \in {"ta"} |-> ht]] :
            rt \in [{"ta", "tb"} -> {0, 1}], ht \in {0, 1},
            mt \in [{"tb", "tc"} \X {"ta", "tb"} -> {0, 1}]}

InitRetrofit == Start(RetrofitInputs, <<"R3", "R3_plain">>) \/ Start(RetrofitInputs, <<"R3_plain">>)
NextRetrofit == R3_RetrofitCapacityConstraint \/ R3_RetrofitCapacityConstraint_plain
SpecRetrofit == InitRetrofit /\ [][NextRetrofit]_vars

\* C24: generating R3 never fails: for every retrofit technology t, every
\* location for which the rule is not skipped and every year after the first,
\* t is a member of OtherRetrofitTechnology at the moment it is removed,
\* including when no technology is matched to t in MatchTechnologyRetrofit.
C24_R3NeverFails ==
    \A f \in fired : f.fam \in {"R3", "R3_plain"} => f.br # "ValueError"

(***************************************************************************)
(* Impurities: IP1 (itom_hub_retrofit_impurities_tinyomo and the two       *)
(* pyomo classes of itom_impurities.py, whose rules have the same text).   *)
(* input.PRODUCT_VALUE is the PRODUCT set in the order of its file         *)
(***************************************************************************)
MaxImpurity(p, i) == Get(input.MaxImpurity, <<p, i>>, HighMaxDefault)

\* [p for p in PRODUCT if (p != i) and (ProductFromTechnology(t, p) == 1)]
IP1_RelevantProduct(order, t, i) ==
    SelectSeq(order, LAMBDA p : p # i /\ ProductFromTechnology(t, p) = 1)

\* "for p in RelevantProduct:" returns in its first iteration on every path
IP1_ImpuritiesInProductsLimit_rule_in(order, l, t, i, y) ==
    IF ProductFromTechnology(t, i) = 1
    THEN IF IP1_RelevantProduct(order, t, i) # <<>>
         THEN LET p == Head(IP1_RelevantProduct(order, t, i))
              IN  IF MaxImpurity(p, i) = HighMaxDefault THEN {}
                  ELSE IF MaxImpurity(p, i) # Zero
                  THEN {Record("IP1", <<l, t, i, y>>,
                               <<Term(One, LocalProductionByTechnology(l, t, i, y)),
                                 Term(Mul(N(-1), MaxImpurity(p, i)),
                                      LocalProductionByTechnology(l, t, p, y))>>, "<=", Zero)}
                  ELSE {Record("IP1", <<l, t, i, y>>,
                               <<Term(One, LocalProductionByTechnology(l, t, i, y))>>,
                               "<=", Zero)}
         ELSE {}
    ELSE {}

IP1_ImpuritiesInProductsLimit_rule(l, t, i, y) ==
    IP1_ImpuritiesInProductsLimit_rule_in(input.PRODUCT_VALUE, l, t, i, y)

IP1_ImpuritiesInProductsLimit_rule_pyomo(l, t, i, y) ==
    IF ProductFromTechnology(t, i) = 1
    THEN IF IP1_RelevantProduct(input.PRODUCT_VALUE, t, i) # <<>>
         THEN LET p == Head(IP1_RelevantProduct(input.PRODUCT_VALUE, t, i))
              IN  IF MaxImpurity(p, i) = HighMaxDefault THEN {}
                  ELSE {Relation("IP1", <<l, t, i, y>>,
                                 V(LocalProductionByTechnology(l, t, i, y)), "<=",
                                 Scale(MaxImpurity(p, i),
                                       V(LocalProductionByTechnology(l, t, p, y))))}
         ELSE {}
    ELSE {}

IP1_ImpuritiesInProductsLimit ==
    /\ At("IP1")
    /\ tiny' = tiny \cup IP1_ImpuritiesInProductsLimit_rule(Cur[1], Cur[2], Cur[3], Cur[4])
    /\ pyo' = pyo \cup IP1_ImpuritiesInProductsLimit_rule_pyomo(Cur[1], Cur[2], Cur[3], Cur[4])
    /\ Advance
    /\ UNCHANGED <<fired, plain>>

(***************************************************************************)
(* Specification SpecImpurity: IP1 for a regular and a hub location, one   *)
(* technology with either hub flag and three products in every file order, *)
(* every output flag and every limit of the bounds                         *)
(***************************************************************************)
Orders(S) == {o \in [1..Cardinality(S) -> S] : \A p \in S : \E j \in DOMAIN o : o[j] = p}

ImpurityInputs ==
    LET base == [EmptyInput EXCEPT !.YEAR = {1}, !.REGION = {"ra"}, !.LOCATION = {"la", "lh"},
                                   !.TECHNOLOGY = {"ta"}, !.PRODUCT = {"pa", "pb", "pi"},
                                   !.HubLocation = [l \in {"la", "lh"} |->
                                                       IF l = "lh" THEN 1 ELSE 0]]
    IN  {[base EXCEPT !.PRODUCT_VALUE = o, !.ProductFromTechnology = pft, !.MaxImpurity = mi,
                      !.HubTechnology = [t \in {"ta"} |-> ht]] :
            o \in Orders(base.PRODUCT), ht \in {0, 1},
            pft \in [{"ta"} \X base.PRODUCT -> {0, 1}],
            mi \in [{"pa", "pb"} \X {"pi"} -> {HighMaxDefault, Zero, N(1), N(2)}]}

InitImpurity == Start(ImpurityInputs, <<"IP1">>)
NextImpurity == IP1_ImpuritiesInProductsLimit
SpecImpurity == InitImpurity /\ [][NextImpurity]_vars

\* the other output products of t whose limit on impurity i is not the sentinel
IP1_Limited(t, i) ==
    {p \in PRODUCT : p # i /\ ProductFromTechnology(t, p) = 1
                     /\ MaxImpurity(p, i) # HighMaxDefault}

\* the row LocalProductionByTechnology(l,t,i,y) <= MaxImpurity(p,i) * LocalProductionByTechnology(l,t,p,y)
IP1_Limit(l, t, i, y, p) ==
    Relation("IP1", <<l, t, i, y>>, V(LocalProductionByTechnology(l, t, i, y)), "<=",
             Scale(MaxImpurity(p, i), V(LocalProductionByTechnology(l, t, p, y))))

\* C25: for every (l,t,i,y) where t outputs impurity product i, IP1 emits a
\* limit row whenever at least one other output product p of t has
\* MaxImpurity(p,i) different from the sentinel, and every such p is limited;
\* the emit/skip decision and the limit applied do not depend on the
\* enumeration order of PRODUCT.
C25_EveryLimitedProductGetsRow ==
    \A c \in done : c.fam = "IP1" /\ ProductFromTechnology(c.idx[2], c.idx[3]) = 1 =>
        \A sys \in {tiny, pyo} :
            /\ IP1_Limited(c.idx[2], c.idx[3]) # {} => RowsOf(sys, "IP1", c.idx) # {}
            /\ \A p \in IP1_Limited(c.idx[2], c.idx[3]) :
                  IP1_Limit(c.idx[1], c.idx[2], c.idx[3], c.idx[4], p) \in sys
            /\ \A o \in Orders(PRODUCT) :
                  RowsOf(sys, "IP1", c.idx)
                     = IP1_ImpuritiesInProductsLimit_rule_in(o, c.idx[1], c.idx[2], c.idx[3], c.idx[4])

(***************************************************************************)
(* Retrofit: R2 (itom_hub_retrofit_tinyomo, abstract_itom_hub_retrofit)    *)
(* next to the accumulation window of CA1                                  *)
(***************************************************************************)
\* yy in YEAR with y - yy == sum(OperationalLife(r,t) * Geography(r,l) for r in REGION)
\* and y - yy > 0
R2_Vintages(l, t, y) == {yy \in YEAR : y - yy = LocalLife(REGION, l, t) /\ y - yy > 0}

R2_RetrofitPotentialFromNewCapacity_rule(l, t, y) ==
    IF R1_Skip(l, t, y) THEN {}
    ELSE {Record("R2", <<l, t, y>>,
                 <<Term(One, PotentialRetrofitFromNew(l, t, y))>>
                 \o Terms(N(-1), SeqOf({LocalNewCapacity(l, t, yy) : yy \in R2_Vintages(l, t, y)})),
                 "==", Zero)}

R2_RetrofitPotentialFromNewCapacity_rule_pyomo(l, t, y) ==
    IF R1_Skip(l, t, y) THEN {}
    ELSE LET v == SeqOf(R2_Vintages(l, t, y))
         IN  {Relation("R2", <<l, t, y>>, V(PotentialRetrofitFromNew(l, t, y)), "==",
                       SumExpr([j \in 1..Len(v) |-> V(LocalNewCapacity(l, t, v[j]))]))}

R2_RetrofitPotentialFromNewCapacity ==
    /\ At("R2")
    /\ tiny' = tiny \cup R2_RetrofitPotentialFromNewCapacity_rule(Cur[1], Cur[2], Cur[3])
    /\ pyo' = pyo \cup R2_RetrofitPotentialFromNewCapacity_rule_pyomo(Cur[1], Cur[2], Cur[3])
    /\ Advance
    /\ UNCHANGED <<fired, plain>>

(***************************************************************************)
(* Specification SpecVintage: CA1 and R2 on a regular and a hub location   *)
(* for three model years one or more years apart and every operational     *)
(* life of the bounds                                                      *)
(***************************************************************************)
VintageInputs ==
    LET base == [EmptyInput EXCEPT !.REGION = {"ra"}, !.LOCATION = {"la", "lh"},
                                   !.TECHNOLOGY = {"ta"},
                                   !.Geography = [x \in {"ra"} \X {"la", "lh"} |-> 1],
                                   !.HubLocation = [l \in {"la", "lh"} |->
                                                       IF l = "lh" THEN 1 ELSE 0]]
    IN  {[base EXCEPT !.YEAR = {1, 1 + g, 1 + 2 * g},
                      !.TimeStep = [y \in {1, 1 + g, 1 + 2 * g} |-> g],
                      !.OperationalLife = [x \in {<<"ra", "ta">>} |-> ol],
                      !.HubTechnology = [t \in {"ta"} |-> ht],
                      !.TechnologyToRetrofit = [t \in {"ta"} |-> ttr]] :
            g \in 1..MaxGap, ol \in 0..(MaxLife + 1), ht \in {0, 1}, ttr \in {0, 1}}

InitVintage == Start(VintageInputs, <<"CA1", "R2">>)
NextVintage == CA1_TotalNewCapacity_1 \/ R2_RetrofitPotentialFromNewCapacity
SpecVintage == InitVintage /\ [][NextVintage]_vars

\* the model year before y
PreviousYear(y) == MaxOf({yy \in YEAR : yy < y})

\* the vintages inside CA1's window at the previous model year and outside it at y
AgedOut(l, t, y) == CA1_Vintages(l, t, PreviousYear(y)) \ CA1_Vintages(l, t, y)

\* C26: for every technology-to-retrofit t at a regular location l and every
\* year y after the first, the vintages summed in PotentialRetrofitFromNew(l,t,y)
\* by R2 are exactly those inside CA1's accumulation window at the previous
\* model year and outside it at y, for any time-step length.
C26_R2SumsExactlyAgedOutVintages ==
    \A c \in done :
        (c.fam = "R2" /\ HubLocation(c.idx[1]) = 0 /\ TechnologyToRetrofit(c.idx[2]) = 1
                      /\ c.idx[3] # MinOf(YEAR)) =>
            \A sys \in {tiny, pyo} :
                /\ RowsOf(sys, "R2", c.idx) # {}
                /\ ColumnsOf(TheRow(sys, "R2", c.idx), "LocalNewCapacity")
                      = {LocalNewCapacity(c.idx[1], c.idx[2], yy) :
                            yy \in AgedOut(c.idx[1], c.idx[2], c.idx[3])}

(***************************************************************************)
(* Hub matching of the columns indexed by (location, technology)           *)
(***************************************************************************)
\* the variables declared on LOCATION x TECHNOLOGY x ...
LocationTechnologyVariables ==
    {"LocalNewCapacity", "LocalAccumulatedNewCapacity", "LocalTotalCapacity", "LocalActivity",
     "LocalActivityByMode", "LocalProductionByMode", "LocalProductionByTechnology",
     "LocalUseByMode", "LocalUseByTechnology", "LocalTechnologyEmissionByMode",
     "LocalCapitalInvestment", "LocalDiscountedCapitalInvestment", "LocalOperatingCost",
     "LocalDiscountedOperatingCost", "PotentialRetrofitFromResidual",
     "PotentialRetrofitFromNew"}

\* the columns of such variables in a record whose location and technology
\* have different hub flags
Mismatched(rec) ==
    {x \in Columns(rec) : x[1] \in LocationTechnologyVariables
                          /\ HubLocation(x[2]) # HubTechnology(x[3])}

\* C27: in the hub variants every column of a (location, technology)-indexed
\* variable referenced by an emitted record, the retrofit (R1-R3) and impurity
\* (IP1) families included, has HubLocation(l) = HubTechnology(t).
C27_ColumnsAreHubMatched == \A rec \in tiny \cup pyo : Mismatched(rec) = {}

(***************************************************************************)
(* Transport costs: TC1                                                    *)
(***************************************************************************)
TransportCostByMode(r, tr, y) == Get(input.TransportCostByMode, <<r, tr, y>>, 0)
TransportCostInterReg(rr, r, tr, y) == Get(input.TransportCostInterReg, <<rr, r, tr, y>>, 0)

\* the (ll, tr) with TransportRoute(ll, l, p, tr, y) == 1, without the test
TC1_InboundMutant(l, p, y) == LOCATION \X TRANSPORTMODE

\* for ll in LOCATION for tr in [trm for trm in TRANSPORTMODE
\*                               if TransportRoute(ll, l, p, trm, y) == 1]
TC1_Inbound(l, p, y) ==
    {e \in LOCATION \X TRANSPORTMODE : TransportRoute(e[1], l, p, e[2], y) = 1}

\* sum(TransportCostByMode(r, tr, y) * Geography(r, l) for r in REGION)
TC1_ModeCost(l, tr, y) ==
    LET rs == SeqOf(REGION)
    IN  SumSeq([j \in 1..Len(rs) |-> N(TransportCostByMode(rs[j], tr, y) * Geography(rs[j], l))])

\* sum(sum(TransportCostInterReg(rr, r, tr, y) * Geography(r, l) for r in REGION)
\*     * Geography(rr, ll) for rr in REGION)
TC1_InterRegCost(ll, l, tr, y) ==
    LET rs == SeqOf(REGION)
    IN  SumSeq([i \in 1..Len(rs) |->
                   Mul(SumSeq([j \in 1..Len(rs) |->
                                  N(TransportCostInterReg(rs[i], rs[j], tr, y)
                                    * Geography(rs[j], l))]),
                       N(Geography(rs[i], ll)))])

\* the second group of the hub arm: for ll in LOCATION if HubLocation(ll) == 1
TC1_InboundFromHub(l, p, y) == {e \in TC1_Inbound(l, p, y) : HubLocation(e[1]) = 1}

TC1_LocalTransportCosts_rule(l, p, y) ==
    LET in == SeqOf(TC1_Inbound(l, p, y))
        hub == SeqOf(TC1_InboundFromHub(l, p, y))
    IN  {Record("TC1", <<l, p, y>>,
                <<Term(One, LocalTransportCost(l, p, y))>>
                \o [j \in 1..Len(in) |->
                       Term(Mul(N(-1), TC1_ModeCost(l, in[j][2], y)),
                            Transport(in[j][1], l, p, in[j][2], y))]
                \o (IF HubLocation(l) = 0 THEN <<>>
                    ELSE [j \in 1..Len(hub) |->
                             Term(Mul(N(-1), TC1_InterRegCost(hub[j][1], l, hub[j][2], y)),
                                  Transport(hub[j][1], l, p, hub[j][2], y))]),
                "==", Zero)}

TC1_LocalTransportCosts_rule_pyomo(l, p, y) ==
    LET in == SeqOf(TC1_Inbound(l, p, y))
        hub == SeqOf(TC1_InboundFromHub(l, p, y))
        byMode == SumExpr([j \in 1..Len(in) |->
                              Scale(TC1_ModeCost(l, in[j][2], y),
                                    V(Transport(in[j][1], l, p, in[j][2], y)))])
        interReg == SumExpr([j \in 1..Len(hub) |->
                                Scale(TC1_InterRegCost(hub[j][1], l, hub[j][2], y),
                                      V(Transport(hub[j][1], l, p, hub[j][2], y)))])
    IN  {Relation("TC1", <<l, p, y>>, V(LocalTransportCost(l, p, y)), "==",
                  IF HubLocation(l) = 0 THEN byMode ELSE Plus(byMode, interReg))}

TC1_LocalTransportCosts ==
    /\ At("TC1")
    /\ tiny' = tiny \cup TC1_LocalTransportCosts_rule(Cur[1], Cur[2], Cur[3])
    /\ pyo' = pyo \cup TC1_LocalTransportCosts_rule_pyomo(Cur[1], Cur[2], Cur[3])
    /\ Advance
    /\ UNCHANGED <<fired, plain>>

(***************************************************************************)
(* Specification SpecRoutes: the transport families on two locations in    *)
(* two regions, a single-purpose and a multi-purpose mode, every route     *)
(* table and every assignment of the hub flag                              *)
(***************************************************************************)
RoutesInputs ==
    LET base == [EmptyInput EXCEPT
                    !.YEAR = SingleYear, !.REGION = {"ra", "rb"}, !.LOCATION = {"la", "lb"},
                    !.PRODUCT = {"pa"}, !.TRANSPORTMODE = {"tra", "trm"},
                    !.Geography = [x \in {"ra", "rb"} \X {"la", "lb"} |->
                                      IF x \in {<<"ra", "la">>, <<"rb", "lb">>} THEN 1 ELSE 0],
                    !.MultiPurposeTransport = [tr \in {"tra", "trm"} |->
                                                  IF tr = "trm" THEN 1 ELSE 0],
                    !.TransportCostByMode =
                        [x \in {"ra", "rb"} \X {"tra", "trm"} \X SingleYear |-> 1],
                    !.TransportCostInterReg =
                        [x \in {"ra", "rb"} \X {"ra", "rb"} \X {"tra", "trm"} \X SingleYear |-> 2]]
        E == base.LOCATION \X base.LOCATION \X base.PRODUCT \X base.TRANSPORTMODE \X base.YEAR
    IN  {[base EXCEPT !.TransportRoute = [e \in R |-> 1],
                      !.TransportCapacity = [e \in R |-> N(MaxCap)],
                      !.HubLocation = hl] :
            R \in SUBSET E, hl \in [base.LOCATION -> {0, 1}]}

InitRoutes == Start(RoutesInputs, <<"TF1a", "TF1b", "TF2", "TF3", "TF4", "TF5", "TC1">>)
NextRoutes ==
    \/ TF1a_Transport_1a \/ TF1b_Transport_1b \/ TF2_Transport_2 \/ TF3_Transport_3
    \/ TF4_Imports \/ TF5_Exports \/ TC1_LocalTransportCosts
SpecRoutes == InitRoutes /\ [][NextRoutes]_vars

\* the Transport columns of a record whose route is not 1
Unrouted(rec) ==
    {x \in TransportColumns(rec) : TransportRoute(x[2], x[3], x[4], x[5], x[6]) # 1}

\* C28: no emitted record of any family (TF1a, TF1b, TF2-TF5, TC1) references a
\* Transport(l,ll,p,tr,y) variable whose TransportRoute(l,ll,p,tr,y) is not 1:
\* a flow without a route never enters a balance, import/export or cost row.
C28_NoTransportWithoutRoute == \A rec \in tiny \cup pyo : Unrouted(rec) = {}

\* all seven families have been generated for a route table with a route in
\* one direction only between the two locations, and the cost row of the
\* destination references the routed flow
C28_Witness ==
    /\ queue = <<>>
    /\ TransportRoute("la", "lb", "pa", "tra", 1) = 1
    /\ TransportRoute("lb", "la", "pa", "tra", 1) # 1
    /\ \E rec \in tiny : rec.fam = "TC1" /\ Transport("la", "lb", "pa", "tra", 1) \in Columns(rec)
    /\ \A f \in {"TF1a", "TF2", "TF3", "TF4", "TF5", "TC1"} : \E rec \in tiny : rec.fam = f

(***************************************************************************)
(* E1 of the plain variant (abstract_itom) next to E1 of the hub variants  *)
(***************************************************************************)
E1_LocalEmissionProductionByMode_rule_plain(l, t, e, m, y) ==
    LET ratio == LocalRatio(REGION, input.EmissionActivityRatio, l, t, e, m, y)
    IN  IF ModeForTechnology(t, m) = 1
        THEN IF ratio > 0
             THEN {Relation("E1", <<l, t, e, m, y>>,
                            V(LocalTechnologyEmissionByMode(l, t, e, m, y)), "==",
                            Scale(N(ratio), V(LocalActivityByMode(l, t, m, y))))}
             ELSE {Relation("E1", <<l, t, e, m, y>>,
                            V(LocalTechnologyEmissionByMode(l, t, e, m, y)), "==", K(Zero))}
        ELSE {}

E1_LocalEmissionProductionByMode_plain ==
    /\ At("E1_plain")
    /\ plain' = plain \cup E1_LocalEmissionProductionByMode_rule_plain(Cur[1], Cur[2], Cur[3],
                                                                       Cur[4], Cur[5])
    /\ Advance
    /\ UNCHANGED <<tiny, pyo, fired>>

(***************************************************************************)
(* Specification SpecEmission: E1 in the three variants on two regular     *)
(* locations, one technology, two modes, for every mode flag and every     *)
(* emission ratio in {-1, 0, 1}                                            *)
(***************************************************************************)
EmissionInputs ==
    LET M == {"ma", "mb"}
        base == [EmptyInput EXCEPT !.YEAR = SingleYear, !.REGION = {"ra"},
                                   !.LOCATION = {"la", "lb"}, !.TECHNOLOGY = {"ta"},
                                   !.MODE_OF_OPERATION = M, !.EMISSION = {"ea"},
                                   !.Geography = [x \in {"ra"} \X {"la", "lb"} |-> 1]]
    IN  {[base EXCEPT !.ModeForTechnology = mft, !.EmissionActivityRatio = ear] :
            mft \in [{"ta"} \X M -> {0, 1}],
            ear \in [{"ra"} \X {"ta"} \X {"ea"} \X M \X SingleYear -> {-1, 0, 1}]}

InitEmission == Start(EmissionInputs, <<"E1", "E1_plain">>)
NextEmission == E1_LocalEmissionProductionByMode \/ E1_LocalEmissionProductionByMode_plain
SpecEmission == InitEmission /\ [][NextEmission]_vars

\* the row E1 is to emit for a valid mode: the emission tied to the activity
\* times the ratio when the ratio is not 0, the emission forced to 0 otherwise
E1_Expected(l, t, e, m, y) ==
    LET ratio == LocalRatio(REGION, input.EmissionActivityRatio, l, t, e, m, y)
    IN  Relation("E1", <<l, t, e, m, y>>, V(LocalTechnologyEmissionByMode(l, t, e, m, y)), "==",
                 IF ratio # 0 THEN Scale(N(ratio), V(LocalActivityByMode(l, t, m, y)))
                 ELSE K(Zero))

\* C29: in every variant (plain and hub, both backends), for a valid operation
\* mode E1 ties LocalTechnologyEmissionByMode(l,t,e,m,y) to
\* LocalActivityByMode(l,t,m,y) times the location-weighted EmissionActivityRatio
\* whenever that ratio is nonzero, including when it is negative, and forces the
\* emission to 0 only when the ratio is exactly 0.
C29_E1TiesEmissionForNonzeroRatio ==
    \A c \in done : ModeForTechnology(c.idx[2], c.idx[4]) = 1 =>
        LET row == {E1_Expected(c.idx[1], c.idx[2], c.idx[3], c.idx[4], c.idx[5])}
        IN  /\ c.fam = "E1" => RowsOf(tiny, "E1", c.idx) = row /\ RowsOf(pyo, "E1", c.idx) = row
            /\ c.fam = "E1_plain" => RowsOf(plain, "E1", c.idx) = row

====
